---- MODULE Spec2Model ----
(***************************************************************************)
(* Expense-reimbursement scripts (bigai_related/报销系统) and the PDF      *)
(* summariser (pdf_reader): the text-then-OCR extraction policy, the       *)
(* invoice-number patterns, the invoice-number cache, the move batch of    *)
(* check_reimbursed_invoices.py and the result file of pdf_reader.py.      *)
(***************************************************************************)
EXTENDS Integers, Sequences, FiniteSets, TLC

(***************************************************************************)
(* Bounds of the model.                                                    *)
(***************************************************************************)
\* longest direct-extracted text, in tokens
MaxTokens == 2
\* PDF names in the reimbursed part of the tree (outside tbd)
MaxBase == 1
\* PDF names in the tbd folder
MaxTbd == 2
\* changes other programs make to the tree while the model runs
MaxEnv == 2
\* PDFs found in the folder batch_analyze_pdfs is given
MaxPdfs == 2
\* PDFs in the folder process_invoices is given
MaxInvoices == 2
\* files in the folder the image text extractor is given
MaxImages == 2
MaxOrders == 2
MaxDupFiles == 2

(***************************************************************************)
(* Texts.  A text is a sequence of tokens; a token stands for a run of     *)
(* characters: k is its kind, n the number of characters of a "ws"         *)
(* (whitespace) or "fill" (neither whitespace, digit nor label) run, or    *)
(* the number of digits that follow the label of a "haoma" (发票号码：),   *)
(* "daima" (发票代码：) or "no" (No.) token, or of a bare "dig" run.  id   *)
(* names the digit stream the digits are taken from: the string of the     *)
(* first n digits of stream id is [id |-> id, len |-> n].                  *)
(***************************************************************************)
Tok(k, id, n) == [k |-> k, id |-> id, n |-> n]

\* whether a token ends in (starts with) a digit
EndsInDigit(t) == t.k \in {"haoma", "daima", "no", "dig"} /\ t.n > 0
StartsWithDigit(t) == t.k = "dig" /\ t.n > 0

\* the sample tokens texts are built from
Tokens ==
    { Tok("ws", 0, 6), Tok("fill", 0, 3), Tok("fill", 0, 97),
      Tok("haoma", 1, 8), Tok("haoma", 1, 20), Tok("daima", 2, 22),
      Tok("no", 2, 8), Tok("dig", 2, 20) }

SeqsUpTo(S, n) == UNION { [1..m -> S] : m \in 0..n }

\* two digit runs never touch: they would be one run
WellFormed(text) ==
    \A i \in 1..(Len(text) - 1) :
        ~(EndsInDigit(text[i]) /\ StartsWithDigit(text[i + 1]))

Texts == { t \in SeqsUpTo(Tokens, MaxTokens) : WellFormed(t) }
OcrTexts == { t \in SeqsUpTo(Tokens, MaxTokens - 1) : WellFormed(t) }

\* number of characters of the label of a token
LabelLen(t) ==
    CASE t.k = "haoma" -> 5
      [] t.k = "daima" -> 5
      [] t.k = "no" -> 3
      [] OTHER -> 0

RECURSIVE StrLen(_)
\* len(text)
StrLen(text) ==
    IF text = <<>> THEN 0
    ELSE LabelLen(Head(text)) + Head(text).n + StrLen(Tail(text))

RECURSIVE LStrip(_)
LStrip(text) ==
    IF text # <<>> /\ Head(text).k = "ws" THEN LStrip(Tail(text)) ELSE text

RECURSIVE RStrip(_)
RStrip(text) ==
    IF text # <<>> /\ text[Len(text)].k = "ws"
    THEN RStrip(SubSeq(text, 1, Len(text) - 1))
    ELSE text

\* text.strip()
Strip(text) == RStrip(LStrip(text))

\* text + "\n"
AppendNewline(text) == Append(text, Tok("ws", 0, 1))

Min(a, b) == IF a < b THEN a ELSE b

(***************************************************************************)
(* The invoice-number patterns.  PatternCapture(p, t) is the set holding   *)
(* group 1 of the match of pattern p that starts in token t, empty when    *)
(* there is none.                                                          *)
(***************************************************************************)
\* 发票号码[：:](\d{8,})
Pattern1(t) ==
    IF t.k = "haoma" /\ t.n >= 8 THEN {[id |-> t.id, len |-> t.n]} ELSE {}

\* 发票代码[：:]?(\d{10,12})
Pattern2(t) ==
    IF t.k = "daima" /\ t.n >= 10
    THEN {[id |-> t.id, len |-> Min(t.n, 12)]}
    ELSE {}

\* No[.:]?\s*(\d{8,})
Pattern3(t) ==
    IF t.k = "no" /\ t.n >= 8 THEN {[id |-> t.id, len |-> t.n]} ELSE {}

\* (\d{20,})
Pattern4(t) ==
    IF EndsInDigit(t) /\ t.n >= 20 THEN {[id |-> t.id, len |-> t.n]} ELSE {}

\* self.invoice_number_patterns, in order
NumPatterns == 4

PatternCapture(p, t) ==
    CASE p = 1 -> Pattern1(t)
      [] p = 2 -> Pattern2(t)
      [] p = 3 -> Pattern3(t)
      [] OTHER -> Pattern4(t)

RECURSIVE FindAll(_, _)
\* re.findall(pattern, text): group 1 of every match, left to right
FindAll(p, text) ==
    IF text = <<>> THEN <<>>
    ELSE LET c == PatternCapture(p, Head(text))
         IN  (IF c = {} THEN <<>> ELSE <<CHOOSE x \in c : TRUE>>)
                 \o FindAll(p, Tail(text))

\* re.search(pattern, text): the set holding group 1 of the leftmost match
Search(p, text) ==
    LET all == FindAll(p, text) IN IF all = <<>> THEN {} ELSE {Head(all)}

(***************************************************************************)
(* Documents.  A PDF is what its two readers give: direct is the outcome   *)
(* of the text-layer extraction (fitz page.get_text()), ocr the outcome of *)
(* rendering the page and running pytesseract on it; ok = FALSE is the     *)
(* library raising.  Documents have one page.                              *)
(***************************************************************************)
Outcome(ok, text) == [ok |-> ok, text |-> text]
Fails == Outcome(FALSE, <<>>)
Doc(direct, ocr) == [direct |-> direct, ocr |-> ocr]

\* the value of a call: its return value, or an exception leaving it
Ret(text) == [raised |-> FALSE, text |-> text]
Raise == [raised |-> TRUE, text |-> <<>>]

\* the empty string as an invoice number
NoNumber == [id |-> 0, len |-> 0]

\* len(text.strip()) < 100
Threshold == 100

(***************************************************************************)
(* InvoiceNumberExtractor (invoice_number_checker.py).  The same four      *)
(* methods are repeated verbatim in ReimbursedInvoiceChecker,              *)
(* TBDDeduplicator and (the first two) InvoiceProcessor.                   *)
(***************************************************************************)
\* extract_text_from_pdf without its try/except
extract_text_from_pdf_Raises(d) ==
    IF d.direct.ok THEN Ret(d.direct.text) ELSE Raise

extract_text_from_pdf(d) ==
    IF d.direct.ok THEN Ret(d.direct.text) ELSE Ret(<<>>)

pdf_to_image_ocr(d) ==
    IF d.ocr.ok THEN Ret(AppendNewline(d.ocr.text)) ELSE Ret(<<>>)

\* the matches of one pattern that pass len(match) >= 8
KeptMatches(p, text) ==
    SelectSeq(FindAll(p, text), LAMBDA m : m.len >= 8)

RECURSIVE NumbersFrom(_, _)
\* the loop over self.invoice_number_patterns from pattern p on
NumbersFrom(p, text) ==
    IF p > NumPatterns THEN <<>>
    ELSE KeptMatches(p, text) \o NumbersFrom(p + 1, text)

\* the loop with a break after the first pattern that matched
extract_invoice_numbers_from_text_Break(text) ==
    LET hit == { p \in 1..NumPatterns : KeptMatches(p, text) # <<>> }
    IN  IF hit = {} THEN <<>>
        ELSE KeptMatches(CHOOSE p \in hit : \A q \in hit : p <= q, text)

extract_invoice_numbers_from_text(text) == NumbersFrom(1, text)

\* the result of extract_invoice_numbers_from_pdf: ocr_calls counts the
\* calls of pdf_to_image_ocr, matched holds the text handed to
\* extract_invoice_numbers_from_text (empty: it was not called)
PdfResult(raised, calls, matched, numbers) ==
    [raised |-> raised, ocr_calls |-> calls, matched |-> matched,
     numbers |-> numbers]

\* the threshold test with <= for <
NeedsOcr_OffByOne(text) == StrLen(Strip(text)) <= Threshold

\* if len(text.strip()) < 100
NeedsOcr(text) == StrLen(Strip(text)) < Threshold

\* the text-then-OCR step keeping the longer of the two texts
extract_invoice_numbers_from_pdf_Longer(d) ==
    LET r1 == extract_text_from_pdf(d)
        need == NeedsOcr(r1.text)
        r2 == IF need THEN pdf_to_image_ocr(d) ELSE r1
        text == IF StrLen(r2.text) >= StrLen(r1.text) THEN r2.text ELSE r1.text
        calls == IF need THEN 1 ELSE 0
    IN  IF Strip(text) # <<>>
        THEN PdfResult(FALSE, calls, {text},
                 extract_invoice_numbers_from_text(text))
        ELSE PdfResult(FALSE, calls, {}, <<>>)

extract_invoice_numbers_from_pdf(d) ==
    LET r1 == extract_text_from_pdf(d)
    IN  IF r1.raised THEN PdfResult(TRUE, 0, {}, <<>>)
        ELSE LET need == NeedsOcr(r1.text)
                 r2 == IF need THEN pdf_to_image_ocr(d) ELSE r1
                 calls == IF need THEN 1 ELSE 0
             IN  IF r2.raised THEN PdfResult(TRUE, calls, {}, <<>>)
                 ELSE IF Strip(r2.text) # <<>>
                      THEN PdfResult(FALSE, calls, {r2.text},
                               extract_invoice_numbers_from_text(r2.text))
                      ELSE PdfResult(FALSE, calls, {}, <<>>)

(***************************************************************************)
(* ReimbursedInvoiceChecker (check_reimbursed_invoices.py) and             *)
(* TBDDeduplicator (deduplicate_tbd.py): their own copies.                 *)
(***************************************************************************)
Checker_extract_invoice_numbers_from_text(text) ==
    KeptMatches(1, text) \o KeptMatches(2, text)
        \o KeptMatches(3, text) \o KeptMatches(4, text)

Checker_extract_invoice_numbers_from_pdf(d) ==
    LET r1 == extract_text_from_pdf(d)
    IN  IF r1.raised THEN PdfResult(TRUE, 0, {}, <<>>)
        ELSE LET need == NeedsOcr(r1.text)
                 r2 == IF need THEN pdf_to_image_ocr(d) ELSE r1
                 calls == IF need THEN 1 ELSE 0
             IN  IF r2.raised THEN PdfResult(TRUE, calls, {}, <<>>)
                 ELSE IF Strip(r2.text) # <<>>
                      THEN PdfResult(FALSE, calls, {r2.text},
                               Checker_extract_invoice_numbers_from_text(r2.text))
                      ELSE PdfResult(FALSE, calls, {}, <<>>)

TBD_extract_invoice_numbers_from_text(text) ==
    KeptMatches(1, text) \o KeptMatches(2, text)
        \o KeptMatches(3, text) \o KeptMatches(4, text)

(***************************************************************************)
(* InvoiceProcessor (expense_request.py).                                  *)
(***************************************************************************)
RECURSIVE FirstMatchFrom(_, _)
\* for pattern in invoice_number_patterns: match = re.search(...);
\* if match: info["发票号码"] = match.group(1); break
FirstMatchFrom(p, text) ==
    IF p > NumPatterns THEN NoNumber
    ELSE LET m == Search(p, text)
         IN  IF m # {} THEN CHOOSE x \in m : TRUE
             ELSE FirstMatchFrom(p + 1, text)

RECURSIVE LastMatchFrom(_, _, _)
\* the loop without its break: a later pattern that matches overwrites
LastMatchFrom(p, text, sofar) ==
    IF p > NumPatterns THEN sofar
    ELSE LET m == Search(p, text)
         IN  LastMatchFrom(p + 1, text,
                 IF m # {} THEN CHOOSE x \in m : TRUE ELSE sofar)

extract_invoice_info_NoBreak(text) == LastMatchFrom(1, text, NoNumber)

\* the 发票号码 field of extract_invoice_info(text, filename)
extract_invoice_info(text) == FirstMatchFrom(1, text)

\* 发票号码 of the placeholder record of a PDF without text
RecognitionFailed == [id |-> 0, len |-> 4]

\* one turn of the loop of process_invoices: the text-then-OCR step and
\* the 发票号码 of the record appended for the file
process_invoices_file(d) ==
    LET r1 == extract_text_from_pdf(d)
    IN  IF r1.raised THEN PdfResult(TRUE, 0, {}, <<>>)
        ELSE LET need == NeedsOcr(r1.text)
                 r2 == IF need THEN pdf_to_image_ocr(d) ELSE r1
                 calls == IF need THEN 1 ELSE 0
             IN  IF r2.raised THEN PdfResult(TRUE, calls, {}, <<>>)
                 ELSE IF Strip(r2.text) # <<>>
                      THEN PdfResult(FALSE, calls, {r2.text},
                               <<extract_invoice_info(r2.text)>>)
                      ELSE PdfResult(FALSE, calls, {}, <<RecognitionFailed>>)

(***************************************************************************)
(* Amounts.  An amount token is a label followed by a numeral             *)
(* [\d,]+\.\d{2}: "xiaoxie" is 小写：, "xiaoxie_paren" is (小写)：,        *)
(* "jiashui" is 价税合计（大写）：, "yen" is ￥ with the numeral ending its    *)
(* line, "heji" is 合计： and "yingfu" is 应付：.  The numeral of            *)
(* Tok(k, id, n) is worth id hundredths and is n characters long, so it    *)
(* holds thousands separators or leading zeros when n is more than its     *)
(* plain rendering needs.  The string of a numeral is                      *)
(* [cents |-> id, len |-> n].                                              *)
(***************************************************************************)
AmountStr(cents, len) == [cents |-> cents, len |-> len]

\* the empty string as an amount
NoAmount == AmountStr(0, 0)

AmountTokens ==
    { Tok("xiaoxie", 0, 4), Tok("xiaoxie", 1250, 5),
      Tok("xiaoxie_paren", 123456, 8), Tok("jiashui", 100000000, 10),
      Tok("yen", 123456, 7), Tok("yen", 15000000, 9),
      Tok("heji", 9900, 5), Tok("yingfu", 1250, 5) }

\* the tokens the texts of invoices are built from
InvoiceTokens ==
    AmountTokens \cup {Tok("haoma", 1, 20), Tok("no", 2, 8), Tok("fill", 0, 3)}

InvoiceTexts == SeqsUpTo(InvoiceTokens, MaxTokens)

\* amount_patterns, in order
NumAmountPatterns == 6

\* whether amount pattern p matches at token t:
\*   1  小写[）)]?[：:：\s]*[￥¥]?([\d,]+\.\d{2})
\*   2  \(小写\)[：:：\s]*[￥¥]?([\d,]+\.\d{2})
\*   3  价税合计[（(]大写[）)]?[：:：\s]*[^\d]*?[￥¥]?([\d,]+\.\d{2})
\*   4  [￥¥]([\d,]+\.\d{2})(?=\s*$|\s*元|\n)
\*   5  合计[：:：\s]*[￥¥]?([\d,]+\.\d{2})
\*   6  应付[：:：\s]*[￥¥]?([\d,]+\.\d{2})
AmountPattern(p, t) ==
    CASE p = 1 -> t.k \in {"xiaoxie", "xiaoxie_paren"}
      [] p = 2 -> t.k = "xiaoxie_paren"
      [] p = 3 -> t.k = "jiashui"
      [] p = 4 -> t.k = "yen"
      [] p = 5 -> t.k = "heji"
      [] OTHER -> t.k = "yingfu"

RECURSIVE FindAllAmounts(_, _)
\* re.findall(pattern, text, re.MULTILINE | re.IGNORECASE)
FindAllAmounts(p, text) ==
    IF text = <<>> THEN <<>>
    ELSE (IF AmountPattern(p, Head(text))
          THEN <<AmountStr(Head(text).id, Head(text).n)>> ELSE <<>>)
             \o FindAllAmounts(p, Tail(text))

\* float(amount_str.replace(',', '')), in hundredths
ToFloat(s) == s.cents

\* the number of characters of f"{amount:.2f}"
RECURSIVE Digits(_)
Digits(n) == IF n < 10 THEN 1 ELSE 1 + Digits(n \div 10)

\* f"{amount:.2f}"
Format2f(cents) == AmountStr(cents, Digits(cents \div 100) + 3)

\* the sanity ceiling of extract_invoice_info, in hundredths
AmountCeiling == 100000000

\* the range test without its upper end
InRange_NoCeiling(amount) == amount > 0

\* amount > 0 and amount < 1000000
InRange(amount) == amount > 0 /\ amount < AmountCeiling

RECURSIVE AmountFrom(_, _)
\* for pattern in amount_patterns: the first match of the pattern is taken;
\* if it is in range it is stored and the loop ends, else the next pattern
\* is tried
AmountFrom(p, text) ==
    IF p > NumAmountPatterns THEN NoAmount
    ELSE LET matches == FindAllAmounts(p, text)
         IN  IF matches # <<>> /\ InRange(ToFloat(matches[1]))
             THEN Format2f(ToFloat(matches[1]))
             ELSE AmountFrom(p + 1, text)

RECURSIVE AmountFromAnyMatch(_, _)
\* the loop taking the first match in range of each pattern
AmountFromAnyMatch(p, text) ==
    IF p > NumAmountPatterns THEN NoAmount
    ELSE LET matches == FindAllAmounts(p, text)
             good == { i \in 1..Len(matches) : InRange(ToFloat(matches[i])) }
         IN  IF good # {}
             THEN Format2f(ToFloat(matches[CHOOSE i \in good :
                                               \A j \in good : i <= j]))
             ELSE AmountFromAnyMatch(p + 1, text)

extract_amount_AnyMatch(text) == AmountFromAnyMatch(1, text)

\* the 金额 field of extract_invoice_info(text, filename)
extract_amount(text) == AmountFrom(1, text)

\* the ceiling of validate_amount, in hundredths
ValidateCeiling == 10000000

\* validate_amount(amount_str): (is_valid, message)
validate_amount(amount_str) ==
    IF amount_str = NoAmount THEN [valid |-> FALSE, message |-> "no_amount"]
    ELSE IF ToFloat(amount_str) <= 0
         THEN [valid |-> FALSE, message |-> "not_positive"]
    ELSE IF ToFloat(amount_str) > ValidateCeiling
         THEN [valid |-> FALSE, message |-> "too_large"]
    ELSE [valid |-> TRUE, message |-> "ok"]

\* a record of invoice_data: reason is 付款明细原因 (the file's stem),
\* number 发票号码, amount 金额, remarks the entries of 备注, empty when
\* the record has no such key
InvoiceRecord(reason, number, amount, remarks) ==
    [reason |-> reason, number |-> number, amount |-> amount,
     remarks |-> remarks]

\* process_invoices appending nothing for a PDF without text
process_invoices_turn_Drop(pdf_file, seen) ==
    LET r == process_invoices_file(pdf_file.doc)
    IN  IF r.matched = {}
        THEN [raised |-> r.raised, records |-> <<>>, seen |-> seen]
        ELSE LET text == CHOOSE t \in r.matched : TRUE
                 number == r.numbers[1]
                 amount == extract_amount(text)
                 v == validate_amount(amount)
             IN  [raised |-> FALSE,
                  records |-> <<InvoiceRecord(pdf_file.stem, number, amount,
                                   IF v.valid THEN <<>> ELSE <<v.message>>)>>,
                  seen |-> seen \cup {number}]

\* one turn of the loop of process_invoices for pdf_file with
\* seen_invoice_numbers = seen: the records appended and the new set
process_invoices_turn(pdf_file, seen) ==
    LET r == process_invoices_file(pdf_file.doc)
    IN  IF r.raised THEN [raised |-> TRUE, records |-> <<>>, seen |-> seen]
        ELSE IF r.matched = {}
        THEN [raised |-> FALSE,
              records |-> <<InvoiceRecord(pdf_file.stem, RecognitionFailed,
                                Format2f(0), <<"ocr_failed">>)>>,
              seen |-> seen]
        ELSE LET text == CHOOSE t \in r.matched : TRUE
                 number == r.numbers[1]
                 amount == extract_amount(text)
                 checked == number # NoNumber /\ number # RecognitionFailed
                 repeated == checked /\ number \in seen
                 v == validate_amount(amount)
             IN  [raised |-> FALSE,
                  records |-> <<InvoiceRecord(pdf_file.stem, number, amount,
                                   (IF repeated THEN <<"duplicate_number">>
                                    ELSE <<>>)
                                   \o (IF v.valid THEN <<>>
                                       ELSE <<v.message>>))>>,
                  seen |-> IF checked THEN seen \cup {number} ELSE seen]

\* a PDF with a text layer holding body, and a scanned PDF showing body
TextPdf(body) == Doc(Outcome(TRUE, <<Tok("fill", 0, 97)>> \o body), Fails)
ScanPdf(body) == Doc(Fails, Outcome(TRUE, body))

\* the PDFs a folder of invoices is made of
InvoiceDocs ==
    { TextPdf(b) : b \in InvoiceTexts } \cup { ScanPdf(b) : b \in InvoiceTexts }
        \cup {Doc(Fails, Fails)}

\* the invoices that folders of several PDFs hold
SampleInvoices ==
    { ScanPdf(<<Tok("haoma", 1, 20), Tok("yen", 123456, 7)>>),
      TextPdf(<<Tok("haoma", 1, 20), Tok("yen", 15000000, 9)>>),
      TextPdf(<<Tok("xiaoxie_paren", 123456, 8)>>),
      ScanPdf(<<Tok("no", 2, 8), Tok("xiaoxie", 0, 4), Tok("xiaoxie", 1250, 5)>>),
      TextPdf(<<Tok("no", 2, 8), Tok("jiashui", 100000000, 10)>>),
      Doc(Outcome(TRUE, <<Tok("ws", 0, 6)>>), Outcome(TRUE, <<>>)),
      Doc(Fails, Fails) }

\* a file of the folder: its stem and its document
InvoiceFile(stem, d) == [stem |-> stem, doc |-> d]

\* list(folder_path.glob("*.pdf")): the lists it can give
InvoiceFolders ==
    { <<InvoiceFile(1, d)>> : d \in InvoiceDocs }
        \cup { [i \in 1..Len(l) |-> InvoiceFile(i, l[i])] :
                   l \in SeqsUpTo(SampleInvoices, MaxInvoices) }

(***************************************************************************)
(* image_text_extractor.py.  A file of the folder is its name, its         *)
(* extension as written, and what OCR makes of it: "text", "blank" (white  *)
(* space only) or "fails" (Image.open or pytesseract raises).              *)
(***************************************************************************)
ImageFile(name, ext, ocr) == [name |-> name, ext |-> ext, ocr |-> ocr]

ImageSamples ==
    { ImageFile(1, "jpg", "text"), ImageFile(2, "PNG", "blank"),
      ImageFile(3, "png", "fails"), ImageFile(4, "Jpg", "text"),
      ImageFile(5, "txt", "text") }

ImageFolder(exists, files) == [exists |-> exists, files |-> files]

\* the folders: one that does not exist, and those holding some files
ImageFolders ==
    {ImageFolder(FALSE, {})}
        \cup { ImageFolder(TRUE, S) : S \in { T \in SUBSET ImageSamples :
                                             Cardinality(T) <= MaxImages } }

\* supported_formats, and each pattern in upper case
SupportedFormats ==
    {"jpg", "jpeg", "png", "bmp", "tiff", "gif",
     "JPG", "JPEG", "PNG", "BMP", "TIFF", "GIF"}

RECURSIVE SortedByName(_)
SortedByName(S) ==
    IF S = {} THEN <<>>
    ELSE LET first == CHOOSE a \in S : \A b \in S : a.name <= b.name
         IN  <<first>> \o SortedByName(S \ {first})

\* image_files = sorted(list(set(the matches of every pattern)))
image_files_of(f) ==
    SortedByName({ x \in f.files : x.ext \in SupportedFormats })

\* the statistics both functions return; processed tells whether the
\* dictionary lists the processed files
Stats(success, failed, total, processed) ==
    [success |-> success, failed |-> failed, total |-> total,
     processed |-> processed]

\* the files the functions write
ExtractedTxt(image) == [kind |-> "extracted_text", name |-> image.name]
MergedTxt == [kind |-> "merged_extracted_text", name |-> 0]

\* extract_text_from_image(image_path): the text, or None, and the file
\* written
extract_text_from_image(available, image) ==
    IF ~available \/ image.ocr = "fails"
    THEN [none |-> TRUE, written |-> {}]
    ELSE [none |-> FALSE, written |-> {ExtractedTxt(image)}]

\* the functions going on with an empty list
NoImages_Never(image_files) == FALSE

\* if not image_files
NoImages(image_files) == image_files = <<>>

(***************************************************************************)
(* ProcurementProcessor (caigou.py).  The OCR text of an order picture is  *)
(* a sequence of tokens ProcTok(k, v), one to a line except that a "yen"   *)
(* token follows on the line of the token before it:                       *)
(*   "bracket"     [Qhebot] followed by product v                          *)
(*   "lenticular"  【Qhebot】 followed by product v                         *)
(*   "color"       the v-th colour word of spec_patterns (1 is 红色)       *)
(*   "xinghao"     型号： followed by word v                                *)
(*   "yen", "yuan", "jiage"   ¥P, P元, 价格：P, P being v thousandths       *)
(*   "x", "times", "shuliang", "ge"   xN, ×N, 数量：N, N个, N being v       *)
(*   "fill"        words no pattern matches                                *)
(* Product 1 is 数字大按键模块按键.                                        *)
(***************************************************************************)
ProcTok(k, v) == [k |-> k, v |-> v]

ProcTokens ==
    { ProcTok("bracket", 1), ProcTok("lenticular", 2), ProcTok("color", 1),
      ProcTok("color", 3), ProcTok("xinghao", 7), ProcTok("yen", 3800),
      ProcTok("yen", 0), ProcTok("yuan", 12500), ProcTok("jiage", 1234),
      ProcTok("x", 6), ProcTok("x", 1), ProcTok("times", 2),
      ProcTok("ge", 3), ProcTok("fill", 0) }

\* "[Qhebot] 数字大按键模块按键 ¥3.8 红色 x6"
ScenarioOrder ==
    <<ProcTok("bracket", 1), ProcTok("yen", 3800), ProcTok("color", 1),
      ProcTok("x", 6)>>

\* the mock text of test_procurement.py
MockOrder ==
    <<ProcTok("fill", 0), ProcTok("bracket", 1), ProcTok("yen", 3800),
      ProcTok("color", 1), ProcTok("x", 6), ProcTok("yen", 33800)>>

ProcTexts == SeqsUpTo(ProcTokens, MaxTokens) \cup {ScenarioOrder, MockOrder}

\* strings of the record: a name "[Qhebot] product", a colour word, a
\* word, or the empty string
NameStr(product) == [kind |-> "name", v |-> product]
ColorStr(c) == [kind |-> "color", v |-> c]
WordStr(w) == [kind |-> "word", v |-> w]
EmptyStr == [kind |-> "", v |-> 0]

\* the places of text whose token is of one of the kinds
PlacesOf(kinds, text) == { i \in 1..Len(text) : text[i].k \in kinds }

\* re.search over a list of patterns, each matching the tokens of one
\* kind: the token of the leftmost match of the first pattern that
\* matches, or none
RECURSIVE SearchKinds(_, _)
SearchKinds(kinds, text) ==
    IF kinds = <<>> THEN {}
    ELSE LET at == PlacesOf({Head(kinds)}, text)
         IN  IF at # {}
             THEN {text[CHOOSE i \in at : \A j \in at : i <= j]}
             ELSE SearchKinds(Tail(kinds), text)

\* name_patterns: both bracket forms give "[brand] product"; the third
\* pattern matches a line holding 按键, which among the tokens only
\* product 1 after its bracket does
parse_name(text) ==
    LET m == SearchKinds(<<"bracket", "lenticular">>, text)
    IN  IF m = {} THEN NameStr(1) ELSE NameStr((CHOOSE t \in m : TRUE).v)

\* spec_patterns: the six colours in order, then 型号：; without a match
\* the name
RECURSIVE FirstColor(_, _)
FirstColor(c, text) ==
    IF c > 6 THEN {}
    ELSE IF \E i \in 1..Len(text) : text[i] = ProcTok("color", c)
         THEN {ColorStr(c)}
         ELSE FirstColor(c + 1, text)

parse_specification(text, name) ==
    LET col == FirstColor(1, text)
        m == SearchKinds(<<"xinghao">>, text)
    IN  IF col # {} THEN CHOOSE s \in col : TRUE
        ELSE IF m # {} THEN WordStr((CHOOSE t \in m : TRUE).v)
        ELSE name

\* the default price 3.8, in thousandths, and the default quantity
DefaultPrice == 3800
DefaultQuantity == 6

\* price_patterns, then the default when unit_price == 0.0
parse_unit_price(text) ==
    LET m == SearchKinds(<<"yen", "yuan", "jiage">>, text)
        found == IF m = {} THEN 0 ELSE (CHOOSE t \in m : TRUE).v
    IN  IF found = 0 THEN DefaultPrice ELSE found

\* quantity_patterns, then the default when quantity == 1
parse_quantity(text) ==
    LET m == SearchKinds(<<"x", "times", "shuliang", "ge">>, text)
        found == IF m = {} THEN 1 ELSE (CHOOSE t \in m : TRUE).v
    IN  IF found = 1 THEN DefaultQuantity ELSE found

\* the product cut to two decimals instead of rounded
round2_Truncated(mills) == mills \div 10

\* round(x, 2) of x thousandths, in hundredths
round2(mills) == (mills + 5) \div 10

\* a procurement record: unit_price in thousandths, total_amount in
\* hundredths
ProcInfo(name, specification, unit_price, quantity, total_amount) ==
    [name |-> name, specification |-> specification,
     unit_price |-> unit_price, quantity |-> quantity, unit |-> "ge",
     total_amount |-> total_amount]

\* parse_procurement_info(text)
parse_procurement_info(text) ==
    LET name == parse_name(text)
        unit_price == parse_unit_price(text)
        quantity == parse_quantity(text)
    IN  ProcInfo(name, parse_specification(text, name), unit_price, quantity,
                 round2(unit_price * quantity))

\* the empty default record of process_image_to_excel
EmptyInfo == ProcInfo(EmptyStr, EmptyStr, 0, 0, 0)

\* a picture: whether the file exists and what OCR reads from it
Picture(exists, ocr) == [exists |-> exists, ocr |-> ocr]
Pictures ==
    {Picture(FALSE, Fails), Picture(TRUE, Fails)}
        \cup { Picture(TRUE, Outcome(TRUE, t)) : t \in ProcTexts }

\* extract_info_from_image without its except clause
extract_info_from_image_Uncaught(image) ==
    IF image.ocr.ok
    THEN [raised |-> FALSE, none |-> FALSE,
          info |-> parse_procurement_info(image.ocr.text)]
    ELSE [raised |-> TRUE, none |-> TRUE, info |-> EmptyInfo]

\* extract_info_from_image(image_path): the record, or None
extract_info_from_image(image) ==
    IF image.ocr.ok
    THEN [raised |-> FALSE, none |-> FALSE,
          info |-> parse_procurement_info(image.ocr.text)]
    ELSE [raised |-> FALSE, none |-> TRUE, info |-> EmptyInfo]

\* the path create_procurement_excel writes: output_path, or a name made
\* of the date
excel_path_of(output_path) ==
    IF output_path = "none" THEN "date.xlsx" ELSE output_path

\* the data row create_procurement_excel writes at row 6, columns 3 to 8
ExcelRow(info) ==
    <<info.name, info.specification, info.unit, info.quantity,
      info.unit_price, info.total_amount>>

(***************************************************************************)
(* generate_procurement_request (load_caigou_from_xlsx.py).  An order is   *)
(* a dictionary: a function whose domain holds the keys it has, "name"     *)
(* standing for 商品名称 and "amount" for 金额.  A value of 金额 is a float,  *)
(* PyFloat(v) being worth v hundredths, or a string, PyStr(s) holding the  *)
(* sequence s of its characters; "Y" stands for the character ￥.  Cell     *)
(* values "keyan haocai" and "pi" stand for 科研耗材 and 批.                *)
(***************************************************************************)
PyFloat(v) == [t |-> "float", v |-> v]
PyStr(s) == [t |-> "str", s |-> s]

\* order.get(key, default)
get(order, key, default) ==
    IF key \in DOMAIN order THEN order[key] ELSE default

\* the truth value Python gives a float or a string
truthy(x) == IF x.t = "float" THEN x.v # 0 ELSE Len(x.s) > 0

DecimalDigits == <<"0", "1", "2", "3", "4", "5", "6", "7", "8", "9">>

\* whether \d matches character c
isdigit(c) == \E i \in 1..10 : DecimalDigits[i] = c

digit_value(c) == (CHOOSE i \in 1..10 : DecimalDigits[i] = c) - 1

\* the decimal numeral of the natural number n
RECURSIVE IntChars(_)
IntChars(n) ==
    IF n < 10
    THEN <<DecimalDigits[n + 1]>>
    ELSE IntChars(n \div 10) \o <<DecimalDigits[(n % 10) + 1]>>

\* str(x): of a float the shortest numeral that reads back, which keeps one
\* digit after the point when the second is 0; of a string the string
py_str(x) ==
    IF x.t = "float"
    THEN IntChars(x.v \div 100) \o <<".">> \o
         (IF x.v % 10 = 0
          THEN <<DecimalDigits[((x.v % 100) \div 10) + 1]>>
          ELSE <<DecimalDigits[((x.v % 100) \div 10) + 1],
                 DecimalDigits[(x.v % 10) + 1]>>)
    ELSE x.s

\* the length of the run of digits of s that starts at position i
RECURSIVE DigitRun(_, _)
DigitRun(s, i) ==
    IF i <= Len(s) /\ isdigit(s[i]) THEN 1 + DigitRun(s, i + 1) ELSE 0

\* re.findall(r'\d+\.?\d*', s) from position i on: each match is a run of
\* digits, a point if one follows, and the digits after the point
RECURSIVE re_findall(_, _)
re_findall(s, i) ==
    IF i > Len(s) THEN <<>>
    ELSE IF ~isdigit(s[i]) THEN re_findall(s, i + 1)
    ELSE LET n == DigitRun(s, i)
             dot == IF i + n <= Len(s) /\ s[i + n] = "." THEN 1 ELSE 0
             m == IF dot = 1 THEN DigitRun(s, i + n + 1) ELSE 0
             end == i + n + dot + m - 1
         IN  <<SubSeq(s, i, end)>> \o re_findall(s, end + 1)

\* the number a sequence of digits writes
RECURSIVE int_of(_)
int_of(d) ==
    IF d = <<>> THEN 0
    ELSE 10 * int_of(SubSeq(d, 1, Len(d) - 1)) + digit_value(d[Len(d)])

\* float(text) of a match of \d+\.?\d*, in hundredths; the numerals of the
\* samples hold at most two decimals.  float raises on no such match.
float_of(text) ==
    LET n == DigitRun(text, 1)
        frac == SubSeq(text, n + 2, Len(text))
    IN  int_of(SubSeq(text, 1, n)) * 100 +
        int_of(SubSeq(frac \o <<"0", "0">>, 1, 2))

\* the amount of lines 211-222: 0 unless the value is truthy and holds a
\* number, then the first number found
amount_of(order) ==
    LET amount_str == get(order, "amount", PyStr(<<"0">>))
    IN  IF ~truthy(amount_str) THEN 0
        ELSE LET numbers == re_findall(py_str(amount_str), 1)
             IN  IF numbers = <<>> THEN 0 ELSE float_of(numbers[1])

\* the seven cells of the data row of an order
DataRow(order) ==
    LET product_name == get(order, "name", "")
        amount == amount_of(order)
    IN  <<"keyan haocai", product_name, product_name, "pi", 1, amount,
          amount>>

TitleRow == <<"mingxibiao 1">>
headers == <<"category", "name", "specification", "unit", "quantity",
             "unit price", "total price">>

\* ws.cell(row=row, ...) of every cell of a row
SetRow(ws, row, cells) ==
    [r \in 1..(IF row > Len(ws) THEN row ELSE Len(ws)) |->
        IF r = row THEN cells ELSE IF r <= Len(ws) THEN ws[r] ELSE <<>>]

\* the values of 金额: the four of test_procurement_generation (￥89.50,
\* 15.80, 25.00, RMB 12.30), 0.0, the empty string and 1,234.50
AmountValues ==
    { PyStr(<<"Y", "8", "9", ".", "5", "0">>),
      PyStr(<<"1", "5", ".", "8", "0">>),
      PyFloat(2500),
      PyStr(<<"R", "M", "B", " ", "1", "2", ".", "3", "0">>),
      PyFloat(0),
      PyStr(<<>>),
      PyStr(<<"1", ",", "2", "3", "4", ".", "5", "0">>) }

ProductNames == {"Arduino kit"}

\* the dictionaries with and without each of the two keys
Orders ==
    { ("name" :> n) @@ ("amount" :> a) :
          n \in ProductNames, a \in AmountValues }
    \cup { ("amount" :> a) : a \in AmountValues }
    \cup { ("name" :> n) : n \in ProductNames }

OrderLists == UNION {[1..n -> Orders] : n \in 0..MaxOrders}

(***************************************************************************)
(* The directory tree under base_path.  A path is a folder and a file      *)
(* name; "base" is the part outside tbd, "tbd" the exclude_folder, "done"  *)
(* tbd/done.  A tree gives each path the document stored there, 0 for no   *)
(* file.                                                                   *)
(***************************************************************************)
Path(dir, name) == [dir |-> dir, name |-> name]

BasePaths == { Path("base", i) : i \in 1..MaxBase }
TbdPaths == { Path("tbd", i) : i \in 1..MaxTbd }
DonePaths == { Path("done", i) : i \in 1..MaxTbd }
Paths == BasePaths \cup TbdPaths \cup DonePaths

\* the documents the files of the tree hold
FileDocs ==
    << \* a text PDF with two invoice numbers, the first one matched by
       \* the 发票号码 pattern and by the 20-digit pattern
       Doc(Outcome(TRUE, <<Tok("fill", 0, 97), Tok("haoma", 1, 20),
                           Tok("no", 2, 8)>>), Fails),
       \* a PDF whose text layer cannot be read and whose OCR reads a number
       Doc(Fails, Outcome(TRUE, <<Tok("no", 2, 8)>>)),
       \* a PDF neither reader can read
       Doc(Fails, Fails) >>

NDocs == Len(FileDocs)

\* Path(file).resolve().is_relative_to(Path(self.exclude_folder).resolve())
UnderTbd(p) == p.dir \in {"tbd", "done"}

\* the order in which the file system lists the paths
DirRank(p) ==
    CASE p.dir = "base" -> p.name
      [] p.dir = "tbd" -> MaxBase + p.name
      [] OTHER -> MaxBase + MaxTbd + p.name

RECURSIVE Listing(_)
\* the paths of a set in listing order
Listing(S) ==
    IF S = {} THEN <<>>
    ELSE LET p == CHOOSE x \in S : \A y \in S : DirRank(x) <= DirRank(y)
         IN  <<p>> \o Listing(S \ {p})

\* Path(folder).rglob("*.pdf") from base_path
RGlob(tree) == Listing({ p \in Paths : tree[p] # 0 })

\* find_all_pdfs(self.base_path, include_excluded)
find_all_pdfs(tree, include_excluded) ==
    SelectSeq(RGlob(tree), LAMBDA p : include_excluded \/ ~UnderTbd(p))

(***************************************************************************)
(* The invoice-number cache of InvoiceNumberExtractor.                     *)
(***************************************************************************)
EmptyMap == [n \in {} |-> <<>>]

\* a cache: invoice_number_set, invoice_to_files, and whether building it
\* ended in an exception
Cache(set, map, raised) == [set |-> set, map |-> map, raised |-> raised]

RECURSIVE AddNumbers(_, _, _)
\* for number in numbers: the set gets it, its file list gets pdf_file
AddNumbers(c, numbers, pdf_file) ==
    IF numbers = <<>> THEN c
    ELSE LET n == Head(numbers)
             old == IF n \in DOMAIN c.map THEN c.map[n] ELSE <<>>
             map == [m \in DOMAIN c.map \cup {n} |->
                        IF m = n THEN Append(old, pdf_file) ELSE c.map[m]]
         IN  AddNumbers(Cache(c.set \cup {n}, map, c.raised),
                        Tail(numbers), pdf_file)

RECURSIVE ScanFiles(_, _, _)
\* for pdf_file in pdf_files: extract its numbers and add them; an
\* exception leaving extract_invoice_numbers_from_pdf ends the loop
ScanFiles(tree, pdf_files, c) ==
    IF pdf_files = <<>> THEN c
    ELSE LET r == extract_invoice_numbers_from_pdf(FileDocs[tree[Head(pdf_files)]])
         IN  IF r.raised THEN Cache(c.set, c.map, TRUE)
             ELSE ScanFiles(tree, Tail(pdf_files),
                            AddNumbers(c, r.numbers, Head(pdf_files)))

\* the file at self.cache_file: state is "absent", "pickle" (data is the
\* pickled dictionary) or "damaged" (a write that did not finish)
CacheFile(state, data) == [state |-> state, data |-> data]
NoCacheFile == CacheFile("absent", [invoice_number_set |-> {}, invoice_to_files |-> EmptyMap])

\* cache_data of save_cache
cache_data(set, map) == [invoice_number_set |-> set, invoice_to_files |-> map]

\* save_cache pickling the set alone
save_cache_SetOnly(file, set, map, how) ==
    CASE how = "ok" -> CacheFile("pickle", [invoice_number_set |-> set])
      [] how = "open_failed" -> file
      [] OTHER -> CacheFile("damaged", [invoice_number_set |-> {}])

\* save_cache; how is "ok", "open_failed" (open() raised, the file is as it
\* was) or "dump_failed" (pickle.dump raised after open() truncated the file)
save_cache_Merge(file, set, map, how) ==
    CASE how = "ok" ->
             CacheFile("pickle",
                 cache_data(set \cup file.data.invoice_number_set,
                            map))
      [] how = "open_failed" -> file
      [] OTHER -> CacheFile("damaged", NoCacheFile.data)

save_cache(file, set, map, how) ==
    CASE how = "ok" -> CacheFile("pickle", cache_data(set, map))
      [] how = "open_failed" -> file
      [] OTHER -> CacheFile("damaged", NoCacheFile.data)

SaveOutcomes == {"ok", "open_failed", "dump_failed"}

\* cache_data.get(key, default)
DictGet(d, key, default) == IF key \in DOMAIN d THEN d[key] ELSE default

\* load_cache: the cache in memory after it
load_cache_KeepsMap(file, set, map) ==
    CASE file.state = "absent" -> Cache(set, map, FALSE)
      [] file.state = "pickle" ->
             Cache(DictGet(file.data, "invoice_number_set", {}),
                   DictGet(file.data, "invoice_to_files", EmptyMap), FALSE)
      [] OTHER -> Cache({}, map, FALSE)

load_cache(file, set, map) ==
    CASE file.state = "absent" -> Cache(set, map, FALSE)
      [] file.state = "pickle" ->
             Cache(DictGet(file.data, "invoice_number_set", {}),
                   DictGet(file.data, "invoice_to_files", EmptyMap), FALSE)
      [] OTHER -> Cache({}, EmptyMap, FALSE)

\* check_invoice_number(invoice_number, include_tbd)
check_invoice_number_AllFiles(map, invoice_number, include_tbd) ==
    LET files == IF invoice_number \in DOMAIN map
                 THEN map[invoice_number] ELSE <<>>
    IN  [exists |-> Len(files) > 0, is_reimbursed |-> Len(files) > 0,
         files |-> files]

check_invoice_number(map, invoice_number, include_tbd) ==
    LET all_files == IF invoice_number \in DOMAIN map
                     THEN map[invoice_number] ELSE <<>>
        files == IF ~include_tbd
                 THEN SelectSeq(all_files, LAMBDA f : ~UnderTbd(f))
                 ELSE all_files
    IN  [exists |-> Len(files) > 0, is_reimbursed |-> Len(files) > 0,
         files |-> files]

\* extract_all_invoice_numbers(force_refresh, include_tbd) up to its call
\* of save_cache: the cache in memory, and whether save_cache is reached
\* the pairs <<file, number>> a map lists
Listed(map) ==
    UNION { { <<map[n][i], n>> : i \in 1..Len(map[n]) } : n \in DOMAIN map }

\* the pairs <<file, number>> that a call of extract_all_invoice_numbers
\* extracts: none on a cache hit, and otherwise the numbers read from each
\* file of the scan
ExtractedBy(tree, set, force_refresh, include_tbd) ==
    IF ~force_refresh /\ set # {} THEN {}
    ELSE LET pdf_files == find_all_pdfs(tree, include_tbd)
             numbers(p) == extract_invoice_numbers_from_pdf(FileDocs[tree[p]]).numbers
         IN  UNION { LET ns == numbers(pdf_files[k])
                     IN  { <<pdf_files[k], ns[i]>> : i \in 1..Len(ns) } :
                     k \in 1..Len(pdf_files) }

extract_all_invoice_numbers_Rescan(tree, set, map, force_refresh, include_tbd) ==
    LET pdf_files == find_all_pdfs(tree, include_tbd)
    IN  IF pdf_files = <<>>
        THEN [cache |-> Cache(set, map, FALSE), saves |-> FALSE]
        ELSE LET c == ScanFiles(tree, pdf_files, Cache({}, EmptyMap, FALSE))
             IN  [cache |-> c, saves |-> ~c.raised]

extract_all_invoice_numbers(tree, set, map, force_refresh, include_tbd) ==
    IF ~force_refresh /\ set # {}
    THEN [cache |-> Cache(set, map, FALSE), saves |-> FALSE]
    ELSE LET pdf_files == find_all_pdfs(tree, include_tbd)
         IN  IF pdf_files = <<>>
             THEN [cache |-> Cache(set, map, FALSE), saves |-> FALSE]
             ELSE LET c == ScanFiles(tree, pdf_files, Cache({}, EmptyMap, FALSE))
                  IN  [cache |-> c, saves |-> ~c.raised]

(***************************************************************************)
(* ReimbursedInvoiceChecker.move_reimbursed_invoices                       *)
(* (check_reimbursed_invoices.py).                                         *)
(***************************************************************************)
\* tbd_path.glob("*.pdf") less the files under done
get_tbd_pdf_files_Recursive(tree) ==
    SelectSeq(RGlob(tree), UnderTbd)

get_tbd_pdf_files(tree) ==
    SelectSeq(RGlob(tree), LAMBDA p : p.dir = "tbd")

\* os.path.join(self.done_folder, os.path.basename(pdf_file))
TargetPath(pdf_file) == Path("done", pdf_file.name)

RECURSIVE Keys(_)
\* the keys of a dictionary filled from a list, in insertion order
Keys(numbers) ==
    IF numbers = <<>> THEN <<>>
    ELSE LET rest == Keys(SubSeq(numbers, 1, Len(numbers) - 1))
             n == numbers[Len(numbers)]
         IN  IF \E i \in 1..Len(rest) : rest[i] = n THEN rest
             ELSE Append(rest, n)

\* check_invoice_numbers_reimbursed(invoice_numbers): the dictionary from
\* number to is_reimbursed, as the sequence of its items
check_invoice_numbers_reimbursed(map, invoice_numbers) ==
    LET ks == Keys(invoice_numbers)
    IN  [i \in 1..Len(ks) |->
            [num |-> ks[i],
             is_reimbursed |-> check_invoice_number(map, ks[i], FALSE).is_reimbursed]]

\* all(reimbursed_status.values()), for a status that is not empty
all_values(status) == \A i \in 1..Len(status) : status[i].is_reimbursed

\* any(reimbursed_status.values())
any_values(status) == \E i \in 1..Len(status) : status[i].is_reimbursed

\* [num for num, is_reimbursed in reimbursed_status.items() if is_reimbursed]
reimbursed_numbers(status) ==
    LET kept == SelectSeq(status, LAMBDA s : s.is_reimbursed)
    IN  [i \in 1..Len(kept) |-> kept[i].num]

\* the dictionary move_reimbursed_invoices returns
Results(total, reimbursed, non_reimbursed, moved, errors) ==
    [total_files |-> total, reimbursed_files |-> reimbursed,
     non_reimbursed_files |-> non_reimbursed, moved_files |-> moved,
     errors |-> errors]

\* what one turn of the loop did with its file: the numbers extracted, the
\* status dictionary (empty: no lookup), how the file was counted, whether
\* the file was moved and its record written, and the step that raised
Entry(file, numbers, status, counted, moved, recorded, fault) ==
    [file |-> file, numbers |-> numbers, status |-> status,
     counted |-> counted, moved |-> moved, recorded |-> recorded,
     fault |-> fault]

\* the state one turn of the loop leaves: raised is an exception leaving
\* the for loop
Turn(tree, res, recs, entry, raised) ==
    [fs |-> tree, results |-> res, records |-> recs, entry |-> entry,
     raised |-> raised]

\* the steps of a turn that can raise
Faults == {"extract", "check", "move", "record"}

\* the turn's exception left uncaught
except_Exception_Uncaught(tree, res, recs, entry) ==
    Turn(tree, res, recs, entry, TRUE)

\* except Exception as e: the message goes to results['errors']
except_Exception_Uncounted(tree, res, recs, entry) ==
    Turn(tree,
         [res EXCEPT !.errors = Append(@, [file |-> entry.file.name,
                                           at |-> entry.fault]),
                     !.reimbursed_files =
                         IF entry.counted = "reimbursed" THEN @ - 1 ELSE @],
         recs, entry, FALSE)

except_Exception(tree, res, recs, entry) ==
    Turn(tree,
         [res EXCEPT !.errors = Append(@, [file |-> entry.file.name,
                                           at |-> entry.fault])],
         recs, entry, FALSE)

\* the body of the for loop for pdf_file; fault names the step at which an
\* exception is raised ("none": no step raises)
move_one(tree, map, res, recs, pdf_file, dry, fault) ==
    LET r == Checker_extract_invoice_numbers_from_pdf(FileDocs[tree[pdf_file]])
    IN
    IF fault = "extract" \/ r.raised
    THEN except_Exception(tree, res, recs,
             Entry(pdf_file, <<>>, <<>>, "", FALSE, FALSE, "extract"))
    ELSE IF r.numbers = <<>>
    THEN Turn(tree, res, recs,
              Entry(pdf_file, <<>>, <<>>, "", FALSE, FALSE, "none"), FALSE)
    ELSE IF fault = "check"
    THEN except_Exception(tree, res, recs,
             Entry(pdf_file, r.numbers, <<>>, "", FALSE, FALSE, "check"))
    ELSE
    LET status == check_invoice_numbers_reimbursed(map, r.numbers)
        target_path == TargetPath(pdf_file)
        counted == [res EXCEPT !.reimbursed_files = @ + 1]
        moved_tree == [tree EXCEPT ![pdf_file] = 0, ![target_path] = tree[pdf_file]]
        info == [original_path |-> pdf_file, target_path |-> target_path,
                 invoice_numbers |-> reimbursed_numbers(status)]
        appended == [counted EXCEPT !.moved_files = Append(@, info)]
    IN
    IF ~any_values(status)
    THEN Turn(tree, [res EXCEPT !.non_reimbursed_files = @ + 1], recs,
              Entry(pdf_file, r.numbers, status, "non_reimbursed",
                    FALSE, FALSE, "none"), FALSE)
    ELSE IF dry
    THEN Turn(tree, appended, recs,
              Entry(pdf_file, r.numbers, status, "reimbursed",
                    FALSE, FALSE, "none"), FALSE)
    ELSE IF fault = "move"
    THEN except_Exception(tree, counted, recs,
             Entry(pdf_file, r.numbers, status, "reimbursed",
                   FALSE, FALSE, "move"))
    ELSE IF fault = "record"
    THEN except_Exception(moved_tree, counted, recs,
             Entry(pdf_file, r.numbers, status, "reimbursed",
                   TRUE, FALSE, "record"))
    ELSE Turn(moved_tree, appended, recs \cup {info},
              Entry(pdf_file, r.numbers, status, "reimbursed",
                    TRUE, TRUE, "none"), FALSE)

(***************************************************************************)
(* TBDDeduplicator (deduplicate_tbd.py).  The PDFs lying in tbd are named  *)
(* 1, 2, ...; a file is its document (0: no such file) and its             *)
(* modification time.  The MD5 hash of a file is its document: equal       *)
(* bytes, equal hash.                                                      *)
(***************************************************************************)
\* the documents of the tbd files: those of FileDocs and a text PDF whose
\* only number is the first number of the first document
DupDocs ==
    FileDocs \o
    << Doc(Outcome(TRUE, <<Tok("fill", 0, 97), Tok("dig", 1, 20)>>), Fails) >>

TbdFile(d, modified) == [doc |-> d, modified |-> modified]
NoTbdFile == TbdFile(0, 0)

\* the folders tbd can be: the files present have distinct modification
\* times
DupTrees ==
    { t \in [1..MaxDupFiles ->
                { TbdFile(d, m) : d \in 0..Len(DupDocs), m \in 0..MaxDupFiles }] :
          /\ \A f \in 1..MaxDupFiles : t[f].doc = 0 <=> t[f].modified = 0
          /\ \A f, g \in 1..MaxDupFiles :
                 (f # g /\ t[f].doc # 0 /\ t[g].doc # 0) =>
                     t[f].modified # t[g].modified }

TBD_extract_invoice_numbers_from_pdf(d) ==
    LET r1 == extract_text_from_pdf(d)
        r2 == IF NeedsOcr(r1.text) THEN pdf_to_image_ocr(d) ELSE r1
    IN  IF Strip(r2.text) # <<>>
        THEN TBD_extract_invoice_numbers_from_text(r2.text)
        ELSE <<>>

\* the names of a set in ascending order
RECURSIVE Ascending(_)
Ascending(S) ==
    IF S = {} THEN <<>>
    ELSE LET m == CHOOSE x \in S : \A y \in S : x <= y
         IN  <<m>> \o Ascending(S \ {m})

\* get_tbd_pdf_files of TBDDeduplicator: sorted(pdf_files)
TBD_get_tbd_pdf_files(tbd) ==
    Ascending({ f \in DOMAIN tbd : tbd[f].doc # 0 })

\* the appends invoice_to_files[invoice_number].append(pdf_file) of the
\* loop over pdf_files, in order
RECURSIVE NumberItems(_, _)
NumberItems(tbd, pdf_files) ==
    IF pdf_files = <<>> THEN <<>>
    ELSE LET f == Head(pdf_files)
             numbers == TBD_extract_invoice_numbers_from_pdf(DupDocs[tbd[f].doc])
         IN  [i \in 1..Len(numbers) |-> [key |-> numbers[i], file |-> f]]
                 \o NumberItems(tbd, Tail(pdf_files))

\* the appends hash_to_files[file_hash].append(pdf_file)
HashItems(tbd, pdf_files) ==
    [i \in 1..Len(pdf_files) |->
        [key |-> tbd[pdf_files[i]].doc, file |-> pdf_files[i]]]

\* the items of a defaultdict(list) after the appends, in insertion order
GroupBy(items) ==
    LET ks == Keys([i \in 1..Len(items) |-> items[i].key])
    IN  [j \in 1..Len(ks) |->
            LET sel == SelectSeq(items, LAMBDA it : it.key = ks[j])
            IN  [key |-> ks[j],
                 files |-> [i \in 1..Len(sel) |-> sel[i].file]]]

\* files.sort(key=lambda x: x['modified'], reverse=True): a stable sort
RECURSIVE SortNewestFirst(_, _)
SortNewestFirst(tbd, files) ==
    IF files = <<>> THEN <<>>
    ELSE LET first ==
                 CHOOSE i \in 1..Len(files) :
                     /\ \A j \in 1..Len(files) :
                            tbd[files[j]].modified <= tbd[files[i]].modified
                     /\ \A j \in 1..(i - 1) :
                            tbd[files[j]].modified < tbd[files[i]].modified
         IN  <<files[first]>> \o
             SortNewestFirst(tbd,
                 [k \in 1..(Len(files) - 1) |->
                     IF k < first THEN files[k] ELSE files[k + 1]])

\* find_duplicates(): the groups of files sharing an invoice number, each
\* file with its path and hash, and the groups of files of equal hash
find_duplicates(tbd) ==
    LET pdf_files == TBD_get_tbd_pdf_files(tbd)
        by_number == GroupBy(NumberItems(tbd, pdf_files))
        by_hash == GroupBy(HashItems(tbd, pdf_files))
        several(groups) == SelectSeq(groups, LAMBDA g : Len(g.files) > 1)
        numbered == several(by_number)
        equal == several(by_hash)
    IN  [total_files |-> Len(pdf_files),
         duplicate_groups |->
             [j \in 1..Len(numbered) |->
                 LET sorted == SortNewestFirst(tbd, numbered[j].files)
                 IN  [invoice_number |-> numbered[j].key,
                      files |-> [i \in 1..Len(sorted) |->
                                    [path |-> sorted[i],
                                     hash |-> tbd[sorted[i]].doc]]]],
         exact_duplicates |->
             [j \in 1..Len(equal) |->
                 [hash |-> equal[j].key, paths |-> equal[j].files]]]

\* select_file_to_keep(files)
select_file_to_keep(files) == files[1]

\* the dictionary deduplicate_files returns; early tells the one returned
\* when nothing is duplicated, which has no deleted_files and no kept_files
DedupResults(groups, deleted, exact, deleted_files, kept_files, errors, early) ==
    [duplicate_groups_processed |-> groups, files_deleted |-> deleted,
     exact_duplicates_processed |-> exact, deleted_files |-> deleted_files,
     kept_files |-> kept_files, errors |-> errors, early |-> early]

\* tbd, tbd/duplicates and the results in hand; raised is an exception on
\* its way to the except clause of the group
DedupState(tbd, duplicates, res, raised) ==
    [tbd |-> tbd, duplicates |-> duplicates, results |-> res,
     raised |-> raised]

\* the loop over files_to_delete moving the files whatever dry_run is
RECURSIVE MoveEach_Live(_, _, _)
MoveEach_Live(st, moves, dry) ==
    IF moves = <<>> THEN st
    ELSE LET mv == Head(moves)
             moved ==
                 [st EXCEPT
                     !.tbd[mv.original_path] = NoTbdFile,
                     !.duplicates =
                         { d \in @ : d.name # mv.target_path } \cup
                         {[name |-> mv.target_path,
                           doc |-> st.tbd[mv.original_path].doc]}]
         IN  IF st.tbd[mv.original_path].doc = 0
             THEN [st EXCEPT !.raised = TRUE]
             ELSE MoveEach_Live(
                      [moved EXCEPT !.results.deleted_files = Append(@, mv),
                                    !.results.files_deleted = @ + 1],
                      Tail(moves), dry)

\* the loop over files_to_delete: shutil.move raises when the file is no
\* longer there; the entry is appended and counted after the move
RECURSIVE MoveEach(_, _, _)
MoveEach(st, moves, dry) ==
    IF moves = <<>> THEN st
    ELSE LET mv == Head(moves)
             moved ==
                 IF dry THEN st
                 ELSE [st EXCEPT
                          !.tbd[mv.original_path] = NoTbdFile,
                          !.duplicates =
                              { d \in @ : d.name # mv.target_path } \cup
                              {[name |-> mv.target_path,
                                doc |-> st.tbd[mv.original_path].doc]}]
         IN  IF ~dry /\ st.tbd[mv.original_path].doc = 0
             THEN [st EXCEPT !.raised = TRUE]
             ELSE MoveEach(
                      [moved EXCEPT !.results.deleted_files = Append(@, mv),
                                    !.results.files_deleted = @ + 1],
                      Tail(moves), dry)

\* one turn of the loop over duplicate_groups
dedup_group(st, group, dry) ==
    LET files == group.files
        file_to_keep == select_file_to_keep(files)
        differing == SelectSeq(files, LAMBDA f : f.hash # file_to_keep.hash)
        files_to_delete == IF differing = <<>> THEN Tail(files) ELSE differing
        kept == [st EXCEPT !.results.kept_files = Append(@, file_to_keep.path)]
        moves == [i \in 1..Len(files_to_delete) |->
                     [original_path |-> files_to_delete[i].path,
                      target_path |-> <<"number", group.invoice_number,
                                        files_to_delete[i].path>>,
                      reason |-> "number"]]
        after == MoveEach(kept, moves, dry)
    IN  IF after.raised
        THEN [after EXCEPT !.raised = FALSE,
                           !.results.errors = Append(@, "number")]
        ELSE [after EXCEPT !.results.duplicate_groups_processed = @ + 1]

\* one turn of the loop over exact_duplicates
dedup_exact(st, exact_group, dry) ==
    LET files == exact_group.paths
        file_name == files[1]
        file_to_keep == files[1]
        files_to_delete == Tail(files)
        kept == [st EXCEPT !.results.kept_files = Append(@, file_to_keep)]
        moves == [i \in 1..Len(files_to_delete) |->
                     [original_path |-> files_to_delete[i],
                      target_path |-> <<"duplicate", i, file_name>>,
                      reason |-> "exact"]]
        after == MoveEach(kept, moves, dry)
    IN  IF Len(files) <= 1 THEN st
        ELSE IF after.raised
        THEN [after EXCEPT !.raised = FALSE,
                           !.results.errors = Append(@, "exact")]
        ELSE [after EXCEPT !.results.exact_duplicates_processed = @ + 1]

(***************************************************************************)
(* PDFAnalyzer (pdf_reader/pdf_reader.py).  A PDF of the folder is its     *)
(* path (sub-folder and file name) and the length of the text              *)
(* extract_text_from_pdf gives for it, 0 when it has none but white space  *)
(* or cannot be read.                                                      *)
(***************************************************************************)
Pdf(dir, name, text_length) ==
    [dir |-> dir, name |-> name, text_length |-> text_length]

PdfSamples == { Pdf(d, n, l) : d \in 1..2, n \in 1..2, l \in {0, 5} }

\* the order of sorted(pdf_files): by path
PathBefore(a, b) == a.dir < b.dir \/ (a.dir = b.dir /\ a.name < b.name)

\* find_all_pdfs(folder_path): the lists it can return
PdfLists ==
    { l \in SeqsUpTo(PdfSamples, MaxPdfs) :
          \A i \in 1..(Len(l) - 1) : PathBefore(l[i], l[i + 1]) }

\* an entry of results: kind is "skipped" or "analysed"; status and
\* tokens_used are those of the analysis; a skipped entry holds no
\* file_path
ResultEntry(kind, file_path, status, tokens_used, text_length) ==
    [kind |-> kind, file_path |-> file_path, status |-> status,
     tokens_used |-> tokens_used, text_length |-> text_length]

NoPath == Pdf(0, 0, 0)

\* the PDFs of a list
Range(l) == { l[i] : i \in 1..Len(l) }

\* a folder: whether it exists and the PDFs under it, at any depth
Folder(exists, pdfs) == [exists |-> exists, pdfs |-> pdfs]
NoFolder == Folder(FALSE, {})
Folders == {NoFolder} \cup { Folder(TRUE, Range(l)) : l \in PdfLists }

\* sorted(pdf_files)
RECURSIVE Sorted(_)
Sorted(S) ==
    IF S = {} THEN <<>>
    ELSE LET first == CHOOSE a \in S : \A b \in S \ {a} : PathBefore(a, b)
         IN  <<first>> \o Sorted(S \ {first})

\* find_all_pdfs(folder_path) of PDFAnalyzer: raised when the folder does
\* not exist
PDFAnalyzer_find_all_pdfs(folder) ==
    IF ~folder.exists THEN [raised |-> TRUE, pdf_files |-> <<>>]
    ELSE [raised |-> FALSE, pdf_files |-> Sorted(folder.pdfs)]

\* an API key as Python sees it: "none" is None, "" the empty string
ApiKeys == {"none", "", "sk"}

\* a or b
PyOr(a, b) == IF a \in {"none", ""} THEN b ELSE a

\* __init__ going on without a key
KeyMissing_Never(key) == FALSE

\* not self.api_key
KeyMissing(key) == key \in {"none", ""}

\* what the chat-completion call can do: answer, using tokens, or raise
ApiOutcomes == { [ok |-> TRUE, total_tokens |-> 3],
                 [ok |-> FALSE, total_tokens |-> 0] }

\* the dictionary analyze_pdf_with_prompt returns; tokens_used is 0 when
\* the dictionary has no such key; called tells whether the API was called
Analysis(status, tokens_used, called, raised) ==
    [status |-> status, tokens_used |-> tokens_used, called |-> called,
     raised |-> raised]

\* analyze_pdf_with_prompt without its except clause
analyze_pdf_with_prompt_Uncaught(text_length, api) ==
    IF text_length = 0 THEN Analysis("error", 0, FALSE, FALSE)
    ELSE IF api.ok THEN Analysis("success", api.total_tokens, TRUE, FALSE)
    ELSE Analysis("", 0, TRUE, TRUE)

\* analyze_pdf_with_prompt(pdf_text, prompt, pdf_name, model)
analyze_pdf_with_prompt(text_length, api) ==
    IF text_length = 0 THEN Analysis("error", 0, FALSE, FALSE)
    ELSE IF api.ok THEN Analysis("success", api.total_tokens, TRUE, FALSE)
    ELSE Analysis("error", 0, TRUE, FALSE)

\* results[key] = entry
DictSet(d, key, entry) ==
    [k \in DOMAIN d \cup {key} |-> IF k = key THEN entry ELSE d[k]]

\* output_data of save_results
output_data(res, tokens) ==
    [total_files |-> Cardinality(DOMAIN res), total_tokens_used |-> tokens,
     results |-> res]

\* a file: state is "absent", "partial" (opened for writing, the JSON not
\* yet complete) or "complete"; data is the output_data written
File(state, data) == [state |-> state, data |-> data]
NoResults == [k \in {} |-> 0]
Absent == File("absent", output_data(NoResults, 0))

\* the name given to the result file
OutputFile == "pdf_analysis.json"

\* save_results writing to output_file itself
temp_file_InPlace(output_file) == output_file

\* temp_file = output_file + ".tmp"
temp_file(output_file) == output_file \o ".tmp"

\* with open(temp_file, 'w') as f: the file is created or truncated
open_w(store, path, data) == [store EXCEPT ![path] = File("partial", data)]

\* json.dump(output_data, f) and the end of the with block
json_dump(store, path, data) == [store EXCEPT ![path] = File("complete", data)]

\* shutil.move(src, dst) within one folder: a rename
shutil_move(store, src, dst) ==
    IF src = dst THEN store
    ELSE [store EXCEPT ![dst] = store[src], ![src] = Absent]

(***************************************************************************)
(* State.                                                                  *)
(***************************************************************************)
VARIABLES
    doc,        \* the PDF handed to the function under test
    called,     \* the function that was called on it, "" before the call
    result,     \* what the call gave (a PdfResult)
    fs,         \* the directory tree under base_path
    env_changes,        \* changes made to the tree by other programs
    invoice_number_set, \* of the InvoiceNumberExtractor
    invoice_to_files,   \* of the InvoiceNumberExtractor
    cache_file,         \* the file invoice_numbers_cache.pkl
    last_call,  \* the last call on the extractor and how it ended
    last_saved, \* the cache in memory at the last save that wrote the file
    extracted_from,     \* the pairs <<file, number>> the scans have extracted so far
    dry_run,    \* the argument of move_reimbursed_invoices
    mv_pc,      \* where move_reimbursed_invoices is: "idle", "loop",
                \* "returned", or "raised" (an exception left it)
    tbd_pdfs,   \* its list of tbd files
    mv_i,       \* the place in tbd_pdfs of the next file of the loop
    results,    \* its result dictionary
    records,    \* the *_info.txt files written to tbd/done
    handled,    \* what each turn of the loop did, in order
    mv_call,    \* which call of move_reimbursed_invoices this is: 1 or 2
    first_results,      \* what the first call returned, once it has
    api_key,    \* the api_key argument given to PDFAnalyzer
    env_api_key,        \* the environment variable SILICONFLOW_API_KEY
    folder,     \* the folder given to batch_analyze_pdfs
    pdf_files,  \* batch_analyze_pdfs: the sorted list find_all_pdfs gave
    pb_pc,      \* where it is: "new" (no analyzer yet), "idle", "next",
                \* "save_open", "save_dump", "save_move", "returned",
                \* "stopped" (interrupted), or the exception raised
    pb_idx,     \* the place in pdf_files of the PDF of the current turn
    pb_results, \* its results dictionary, keyed by file name
    total_tokens,       \* its token count
    api_log,    \* the calls of the chat-completion API, in order: the PDF
                \* and whether the call answered
    store,      \* the files at output_file and at output_file + ".tmp"
    saved_data  \* the output_data of the completed calls of save_results

VARIABLES
    inv_exists, \* process_invoices: whether folder_path exists
    inv_files,  \* the PDFs of the folder, in the order glob gives them
    inv_pc,     \* "idle", "loop", "returned" or "FileNotFoundError"
    inv_i,      \* the place in inv_files of the next file
    invoice_data,       \* the records appended so far
    seen_invoice_numbers

VARIABLES
    OCR_AVAILABLE,      \* whether pytesseract and PIL were imported
    img_folder, \* the folder given
    img_op,     \* the function called, "" before the call
    img_pc,     \* "idle", "loop", "write" or "returned"
    image_files,        \* its sorted list of image files
    img_i,      \* the place in image_files of the next image
    success_count,
    failed_count,
    all_extracted_text, \* the images whose text is to be merged
    img_written,        \* the files written
    img_result  \* the dictionary returned

VARIABLES
    proc_image, \* process_image_to_excel: the picture at image_path
    proc_output,        \* its output_path argument, "none" for None
    proc_pc,    \* "idle", "excel", "returned" or "Exception"
    procurement_info,   \* the record it holds
    proc_excel, \* the Excel files written: path and data row
    proc_return \* the pair returned

VARIABLES
    orders_data,        \* generate_procurement_request: its orders
    gen_pc,     \* "start", "rows" or "done"
    row_idx,    \* the row of the order in turn
    gen_ws,     \* the worksheet: the cells of each row written
    gen_raised, \* whether wb.save raised (caught and printed)
    gen_file    \* the rows of output_file on disk, <<>> when not written

VARIABLES
    dd_tbd,     \* deduplicate_files: the PDFs lying in tbd
    dd_duplicates,      \* the files of tbd/duplicates: name and document
    dd_dry_run, \* its argument
    dd_pc,      \* "idle", "groups", "exact" or "returned"
    duplicate_results,  \* what find_duplicates gave
    dd_k,       \* the place of the next group of the loop in turn
    dd_results, \* its result dictionary
    dd_before   \* tbd as it was before the call

textVars == <<doc, called, result>>
VARIABLES
    run_pc,     \* two runs on one cache file: "idle", "start", "loaded",
                \* "scanned" or "done" for each
    run_set,    \* the invoice_number_set of each run's extractor
    run_map,    \* the invoice_to_files of each run's extractor
    run_saved,  \* how the save_cache of each run ended, "" before it
    last_writer \* the run that wrote the cache file last, 0 for none

cacheVars == <<fs, env_changes, invoice_number_set, invoice_to_files,
               cache_file, last_call, last_saved, extracted_from>>
moveVars == <<dry_run, mv_pc, tbd_pdfs, mv_i, results, records, handled,
              mv_call, first_results>>
invoiceVars == <<inv_exists, inv_files, inv_pc, inv_i, invoice_data,
                 seen_invoice_numbers>>
imageVars == <<OCR_AVAILABLE, img_folder, img_op, img_pc, image_files, img_i,
               success_count, failed_count, all_extracted_text, img_written,
               img_result>>
procVars == <<proc_image, proc_output, proc_pc, procurement_info, proc_excel,
              proc_return>>
genVars == <<orders_data, gen_pc, row_idx, gen_ws, gen_raised, gen_file>>
dedupVars == <<dd_tbd, dd_duplicates, dd_dry_run, dd_pc, duplicate_results,
               dd_k, dd_results, dd_before>>
runVars == <<run_pc, run_set, run_map, run_saved, last_writer>>
restVars == <<invoiceVars, imageVars, procVars, genVars, dedupVars, runVars>>
pdfEnv == <<api_key, env_api_key, folder>>
pdfVars == <<api_key, env_api_key, folder, pdf_files, pb_pc, pb_idx,
             pb_results, total_tokens, api_log, store, saved_data>>
vars == <<doc, called, result, fs, env_changes, invoice_number_set,
          invoice_to_files, cache_file, last_call, last_saved, extracted_from,
          dry_run, mv_pc, tbd_pdfs, mv_i, results, records, handled,
          mv_call, first_results,
          api_key, env_api_key, folder, pdf_files, pb_pc, pb_idx, pb_results, total_tokens, api_log,
          store, saved_data, restVars>>

Call(op, force_refresh, include_tbd, raised) ==
    [op |-> op, force_refresh |-> force_refresh, include_tbd |-> include_tbd,
     raised |-> raised]
NoCall == Call("", FALSE, FALSE, FALSE)

Saved(valid, set, map) == [valid |-> valid, set |-> set, map |-> map]

\* nothing has run yet: an empty tree and no cache file
CacheIdle ==
    /\ fs = [p \in Paths |-> 0]
    /\ env_changes = 0
    /\ invoice_number_set = {}
    /\ invoice_to_files = EmptyMap
    /\ cache_file = NoCacheFile
    /\ last_call = NoCall
    /\ last_saved = Saved(FALSE, {}, EmptyMap)
    /\ extracted_from = {}

InvoiceIdle ==
    /\ inv_exists = FALSE
    /\ inv_files = <<>>
    /\ inv_pc = "idle"
    /\ inv_i = 1
    /\ invoice_data = <<>>
    /\ seen_invoice_numbers = {}

ImageIdle ==
    /\ OCR_AVAILABLE = TRUE
    /\ img_folder = ImageFolder(FALSE, {})
    /\ img_op = ""
    /\ img_pc = "idle"
    /\ image_files = <<>>
    /\ img_i = 1
    /\ success_count = 0
    /\ failed_count = 0
    /\ all_extracted_text = <<>>
    /\ img_written = {}
    /\ img_result = Stats(0, 0, 0, FALSE)

NoReturn == [excel_path |-> "", info |-> EmptyInfo]

ProcIdle ==
    /\ proc_image = Picture(FALSE, Fails)
    /\ proc_output = "none"
    /\ proc_pc = "idle"
    /\ procurement_info = EmptyInfo
    /\ proc_excel = {}
    /\ proc_return = NoReturn

\* the programs modelled after the first four have not run
GenIdle ==
    /\ orders_data = <<>>
    /\ gen_pc = "start"
    /\ row_idx = 3
    /\ gen_ws = <<>>
    /\ gen_raised = FALSE
    /\ gen_file = <<>>

NoneFound == [total_files |-> 0, duplicate_groups |-> <<>>,
              exact_duplicates |-> <<>>]

DedupIdle ==
    /\ dd_tbd = [f \in 1..MaxDupFiles |-> NoTbdFile]
    /\ dd_duplicates = {}
    /\ dd_dry_run = FALSE
    /\ dd_pc = "idle"
    /\ duplicate_results = NoneFound
    /\ dd_k = 1
    /\ dd_results = DedupResults(0, 0, 0, <<>>, <<>>, <<>>, FALSE)
    /\ dd_before = dd_tbd

\* the two runs of the program
Runs == {1, 2}

RunsAt(pc) ==
    /\ run_pc = [r \in Runs |-> pc]
    /\ run_set = [r \in Runs |-> {}]
    /\ run_map = [r \in Runs |-> EmptyMap]
    /\ run_saved = [r \in Runs |-> ""]
    /\ last_writer = 0

RunsIdle == RunsAt("idle")

RestIdle ==
    InvoiceIdle /\ ImageIdle /\ ProcIdle /\ GenIdle /\ DedupIdle /\ RunsIdle

StorePaths == {OutputFile, OutputFile \o ".tmp"}

PdfIdle ==
    /\ api_key = "none"
    /\ env_api_key = "none"
    /\ folder = NoFolder
    /\ pdf_files = <<>>
    /\ pb_pc = "new"
    /\ pb_idx = 1
    /\ pb_results = NoResults
    /\ total_tokens = 0
    /\ api_log = <<>>
    /\ store = [p \in StorePaths |-> Absent]
    /\ saved_data = {}

MoveIdle ==
    /\ dry_run = FALSE
    /\ mv_pc = "idle"
    /\ tbd_pdfs = <<>>
    /\ mv_i = 1
    /\ results = Results(0, 0, 0, <<>>, <<>>)
    /\ records = {}
    /\ handled = <<>>
    /\ mv_call = 1
    /\ first_results = Results(0, 0, 0, <<>>, <<>>)

TextIdle ==
    /\ doc = Doc(Fails, Fails)
    /\ called = ""
    /\ result = PdfResult(FALSE, 0, {}, <<>>)

SampleDocs ==
    { Doc(d, o) : d \in {Fails} \cup { Outcome(TRUE, t) : t \in Texts },
                  o \in {Fails} \cup { Outcome(TRUE, t) : t \in OcrTexts } }

NoResult == PdfResult(FALSE, 0, {}, <<>>)

TextInit ==
    /\ doc \in SampleDocs
    /\ called = ""
    /\ result = NoResult
    /\ CacheIdle
    /\ MoveIdle
    /\ PdfIdle
    /\ RestIdle

\* InvoiceNumberExtractor.extract_invoice_numbers_from_pdf(doc)
CallExtractorFromPdf ==
    /\ called = ""
    /\ called' = "InvoiceNumberExtractor.extract_invoice_numbers_from_pdf"
    /\ result' = extract_invoice_numbers_from_pdf(doc)
    /\ UNCHANGED <<doc, cacheVars, moveVars, pdfVars, restVars>>

\* ReimbursedInvoiceChecker.extract_invoice_numbers_from_pdf(doc)
CallCheckerFromPdf ==
    /\ called = ""
    /\ called' = "ReimbursedInvoiceChecker.extract_invoice_numbers_from_pdf"
    /\ result' = Checker_extract_invoice_numbers_from_pdf(doc)
    /\ UNCHANGED <<doc, cacheVars, moveVars, pdfVars, restVars>>

\* TBDDeduplicator.extract_invoice_numbers_from_text(text of doc)
CallDedupFromText ==
    /\ called = ""
    /\ doc.direct.ok
    /\ called' = "TBDDeduplicator.extract_invoice_numbers_from_text"
    /\ result' = PdfResult(FALSE, 0, {doc.direct.text},
                     TBD_extract_invoice_numbers_from_text(doc.direct.text))
    /\ UNCHANGED <<doc, cacheVars, moveVars, pdfVars, restVars>>

\* InvoiceProcessor.extract_invoice_info(text of doc, name)
CallExtractInvoiceInfo ==
    /\ called = ""
    /\ doc.direct.ok
    /\ called' = "InvoiceProcessor.extract_invoice_info"
    /\ result' = PdfResult(FALSE, 0, {doc.direct.text},
                     <<extract_invoice_info(doc.direct.text)>>)
    /\ UNCHANGED <<doc, cacheVars, moveVars, pdfVars, restVars>>

\* InvoiceProcessor.process_invoices, the turn of the loop for doc
CallProcessInvoicesFile ==
    /\ called = ""
    /\ called' = "InvoiceProcessor.process_invoices"
    /\ result' = process_invoices_file(doc)
    /\ UNCHANGED <<doc, cacheVars, moveVars, pdfVars, restVars>>

TextNext ==
    \/ CallExtractorFromPdf
    \/ CallCheckerFromPdf
    \/ CallDedupFromText
    \/ CallExtractInvoiceInfo
    \/ CallProcessInvoicesFile

SpecText == TextInit /\ [][TextNext]_vars

(***************************************************************************)
(* The cache: one InvoiceNumberExtractor at a time, the cache file, and    *)
(* the tree changing between calls.                                        *)
(***************************************************************************)
\* the ghost of the last completed save after save_cache ended as how
SavedAfter(how, set, map) ==
    CASE how = "ok" -> Saved(TRUE, set, map)
      [] how = "open_failed" -> last_saved
      [] OTHER -> Saved(FALSE, {}, EmptyMap)

\* InvoiceNumberExtractor(): empty set and map, then load_cache
NewExtractor ==
    LET c == load_cache(cache_file, {}, EmptyMap)
    IN  /\ invoice_number_set' = c.set
        /\ invoice_to_files' = c.map
        /\ last_call' = Call("__init__", FALSE, FALSE, FALSE)
        /\ UNCHANGED <<fs, env_changes, cache_file, last_saved, extracted_from>>
        /\ UNCHANGED <<textVars, moveVars, pdfVars, restVars>>

\* extractor.load_cache()
LoadCache ==
    LET c == load_cache(cache_file, invoice_number_set, invoice_to_files)
    IN  /\ invoice_number_set' = c.set
        /\ invoice_to_files' = c.map
        /\ last_call' = Call("load_cache", FALSE, FALSE, FALSE)
        /\ UNCHANGED <<fs, env_changes, cache_file, last_saved, extracted_from>>
        /\ UNCHANGED <<textVars, moveVars, pdfVars, restVars>>

\* extractor.save_cache()
SaveCache(how) ==
    /\ cache_file' = save_cache(cache_file, invoice_number_set,
                                invoice_to_files, how)
    /\ last_saved' = SavedAfter(how, invoice_number_set, invoice_to_files)
    /\ last_call' = Call("save_cache", FALSE, FALSE, FALSE)
    /\ UNCHANGED <<fs, env_changes, invoice_number_set, invoice_to_files,
                   extracted_from>>
    /\ UNCHANGED <<textVars, moveVars, pdfVars, restVars>>

\* extractor.extract_all_invoice_numbers(force_refresh, include_tbd)
ExtractAll(force_refresh, include_tbd) ==
    LET r == extract_all_invoice_numbers(fs, invoice_number_set,
                 invoice_to_files, force_refresh, include_tbd)
    IN  /\ invoice_number_set' = r.cache.set
        /\ invoice_to_files' = r.cache.map
        /\ IF r.saves
           THEN \E how \in SaveOutcomes :
                    /\ cache_file' = save_cache(cache_file, r.cache.set,
                                                r.cache.map, how)
                    /\ last_saved' = SavedAfter(how, r.cache.set, r.cache.map)
           ELSE UNCHANGED <<cache_file, last_saved>>
        /\ last_call' = Call("extract_all_invoice_numbers", force_refresh,
                             include_tbd, r.cache.raised)
        /\ extracted_from' = extracted_from \cup
               ExtractedBy(fs, invoice_number_set, force_refresh, include_tbd)
        /\ UNCHANGED <<fs, env_changes>>
        /\ UNCHANGED <<textVars, moveVars, pdfVars, restVars>>

\* another program stores, replaces or deletes a PDF of the tree
EnvChange(p, d) ==
    /\ env_changes < MaxEnv
    /\ fs[p] # d
    /\ fs' = [fs EXCEPT ![p] = d]
    /\ env_changes' = env_changes + 1
    /\ last_call' = NoCall
    /\ UNCHANGED <<invoice_number_set, invoice_to_files, cache_file, last_saved,
                   extracted_from>>
    /\ UNCHANGED <<textVars, moveVars, pdfVars, restVars>>

CacheInit == TextIdle /\ CacheIdle /\ MoveIdle /\ PdfIdle /\ RestIdle

CacheNext ==
    \/ NewExtractor
    \/ LoadCache
    \/ \E how \in SaveOutcomes : SaveCache(how)
    \/ \E f, i \in BOOLEAN : ExtractAll(f, i)
    \/ \E p \in BasePaths \cup TbdPaths, d \in 0..NDocs : EnvChange(p, d)

SpecCache == CacheInit /\ [][CacheNext]_vars

(***************************************************************************)
(* The move batch: a ReimbursedInvoiceChecker is constructed over a tree   *)
(* and a cache file, and move_reimbursed_invoices runs once.               *)
(***************************************************************************)
\* the trees with files in the reimbursed part and in tbd, tbd/done empty
Trees ==
    { t \in [Paths -> 0..NDocs] : \A p \in DonePaths : t[p] = 0 }

\* the tree with its reimbursed part emptied
WithoutBase(t) == [p \in Paths |-> IF p.dir = "base" THEN 0 ELSE t[p]]

\* the tree when a copy of every tbd file lay in tbd/done as well
WithDoneCopies(t) ==
    [p \in Paths |-> IF p.dir = "done" THEN t[Path("tbd", p.name)] ELSE t[p]]

\* the cache file an earlier run wrote when the tree was t
CacheFileOf(t) ==
    LET r == extract_all_invoice_numbers(t, {}, EmptyMap, TRUE, TRUE)
    IN  IF r.saves
        THEN save_cache(NoCacheFile, r.cache.set, r.cache.map, "ok")
        ELSE NoCacheFile

\* ReimbursedInvoiceChecker(): its InvoiceNumberExtractor loads the cache
\* file, which is absent or was written by an earlier run, before or after
\* the reimbursed files of the tree were stored
MoveInit ==
    /\ TextIdle
    /\ PdfIdle
    /\ RestIdle
    /\ fs \in Trees
    /\ env_changes = 0
    /\ cache_file \in {NoCacheFile, CacheFileOf(fs), CacheFileOf(WithoutBase(fs)),
                       CacheFileOf(WithDoneCopies(fs))}
    /\ invoice_number_set = load_cache(cache_file, {}, EmptyMap).set
    /\ invoice_to_files = load_cache(cache_file, {}, EmptyMap).map
    /\ last_call = Call("__init__", FALSE, FALSE, FALSE)
    /\ last_saved = Saved(cache_file.state = "pickle", invoice_number_set,
                          invoice_to_files)
    /\ extracted_from = Listed(invoice_to_files)
    /\ dry_run \in BOOLEAN
    /\ mv_pc = "idle"
    /\ tbd_pdfs = <<>>
    /\ mv_i = 1
    /\ results = Results(0, 0, 0, <<>>, <<>>)
    /\ records = {}
    /\ handled = <<>>
    /\ mv_call = 1
    /\ first_results = Results(0, 0, 0, <<>>, <<>>)

\* move_reimbursed_invoices(dry_run) up to its for loop: the cache is
\* ensured, the tbd files are listed, and with none of them it returns
MoveStart ==
    /\ mv_pc = "idle"
    /\ LET r == extract_all_invoice_numbers(fs, invoice_number_set,
                    invoice_to_files, FALSE, TRUE)
       IN  /\ invoice_number_set' = r.cache.set
           /\ invoice_to_files' = r.cache.map
           /\ IF r.saves
              THEN \E how \in SaveOutcomes :
                       /\ cache_file' = save_cache(cache_file, r.cache.set,
                                                   r.cache.map, how)
                       /\ last_saved' = SavedAfter(how, r.cache.set, r.cache.map)
              ELSE UNCHANGED <<cache_file, last_saved>>
           /\ last_call' = Call("extract_all_invoice_numbers", FALSE, TRUE,
                                r.cache.raised)
           /\ extracted_from' = extracted_from \cup
                  ExtractedBy(fs, invoice_number_set, FALSE, TRUE)
           /\ IF r.cache.raised
              THEN /\ mv_pc' = "raised"
                   /\ UNCHANGED <<tbd_pdfs, results>>
              ELSE /\ tbd_pdfs' = get_tbd_pdf_files(fs)
                   /\ mv_pc' = IF tbd_pdfs' = <<>> THEN "returned" ELSE "loop"
                   /\ results' = Results(Len(tbd_pdfs'), 0, 0, <<>>, <<>>)
    /\ UNCHANGED <<fs, env_changes, dry_run, mv_i, records, handled,
                   mv_call, first_results>>
    /\ UNCHANGED <<textVars, pdfVars, restVars>>

\* one turn of the for loop, and the return after the last one
MoveFile(fault) ==
    /\ mv_pc = "loop"
    /\ LET t == move_one(fs, invoice_to_files, results, records,
                         tbd_pdfs[mv_i], dry_run, fault)
       IN  /\ t.entry.fault = fault
           /\ fs' = t.fs
           /\ results' = t.results
           /\ records' = t.records
           /\ handled' = Append(handled, t.entry)
           /\ mv_i' = mv_i + 1
           /\ mv_pc' = IF t.raised THEN "raised"
                       ELSE IF mv_i = Len(tbd_pdfs) THEN "returned"
                       ELSE "loop"
    /\ UNCHANGED <<env_changes, invoice_number_set, invoice_to_files,
                   cache_file, last_call, last_saved, extracted_from,
                   dry_run, tbd_pdfs,
                   mv_call, first_results>>
    /\ UNCHANGED <<textVars, pdfVars, restVars>>

\* the first call has returned without an error and move_reimbursed_invoices
\* is called again on the same checker, with the same argument
MoveAgain ==
    /\ mv_pc = "returned"
    /\ mv_call = 1
    /\ results.errors = <<>>
    /\ mv_call' = 2
    /\ first_results' = results
    /\ mv_pc' = "idle"
    /\ tbd_pdfs' = <<>>
    /\ mv_i' = 1
    /\ results' = Results(0, 0, 0, <<>>, <<>>)
    /\ handled' = <<>>
    /\ UNCHANGED <<fs, env_changes, invoice_number_set, invoice_to_files,
                   cache_file, last_call, last_saved, extracted_from,
                   dry_run, records>>
    /\ UNCHANGED <<textVars, pdfVars, restVars>>

MoveNext ==
    \/ MoveStart
    \/ \E fault \in Faults \cup {"none"} : MoveFile(fault)
    \/ MoveAgain

SpecMove == MoveInit /\ [][MoveNext]_vars

(***************************************************************************)
(* The PDF batch: batch_analyze_pdfs runs once over a folder; the process  *)
(* can be stopped at any point.                                            *)
(***************************************************************************)
\* the result file an earlier run left
OldData ==
    output_data([k \in {9} |-> ResultEntry("skipped", NoPath, "", 0, 0)], 0)

\* before PDFAnalyzer is constructed: the folder holds its PDFs; the
\* output file is absent or complete from an earlier run, the temporary
\* file absent or left partial by an earlier run that was stopped
PdfInit ==
    /\ TextIdle /\ CacheIdle /\ MoveIdle /\ RestIdle
    /\ api_key \in ApiKeys
    /\ env_api_key \in ApiKeys
    /\ folder \in Folders
    /\ pdf_files = <<>>
    /\ pb_pc = "new"
    /\ pb_idx = 1
    /\ pb_results = NoResults
    /\ total_tokens = 0
    /\ api_log = <<>>
    /\ \E o \in {Absent, File("complete", OldData)},
          t \in {Absent, File("partial", OldData)} :
           store = [p \in StorePaths |-> IF p = OutputFile THEN o ELSE t]
    /\ saved_data = {OldData}

\* PDFAnalyzer(api_key): ValueError when neither the argument nor the
\* environment gives a key
NewAnalyzer ==
    /\ pb_pc = "new"
    /\ pb_pc' = IF KeyMissing(PyOr(api_key, env_api_key))
                THEN "ValueError_api_key" ELSE "idle"
    /\ UNCHANGED <<pdf_files, pb_idx, pb_results, total_tokens, api_log,
                   store, saved_data>>
    /\ UNCHANGED <<textVars, cacheVars, moveVars, pdfEnv, restVars>>

\* batch_analyze_pdfs up to its for loop: find_all_pdfs raises when the
\* folder does not exist; with no PDF the function returns {}
BatchStart ==
    /\ pb_pc = "idle"
    /\ LET found == PDFAnalyzer_find_all_pdfs(folder)
       IN  /\ pdf_files' = found.pdf_files
           /\ pb_pc' = IF found.raised THEN "ValueError_folder"
                       ELSE IF found.pdf_files = <<>> THEN "returned"
                       ELSE "next"
    /\ UNCHANGED <<pb_idx, pb_results, total_tokens, api_log,
                   store, saved_data>>
    /\ UNCHANGED <<textVars, cacheVars, moveVars, pdfEnv, restVars>>

\* one turn of the for loop up to its call of save_results, for a PDF
\* without text
BatchSkip ==
    /\ pb_pc = "next"
    /\ pdf_files[pb_idx].text_length = 0
    /\ pb_results' = DictSet(pb_results, pdf_files[pb_idx].name,
                         ResultEntry("skipped", NoPath, "", 0, 0))
    /\ pb_pc' = "save_open"
    /\ UNCHANGED <<pdf_files, pb_idx, total_tokens, api_log, store, saved_data>>
    /\ UNCHANGED <<textVars, cacheVars, moveVars, pdfEnv, restVars>>

\* one turn of the for loop up to its call of save_results, for a PDF with
\* text: analyze_pdf_with_prompt calls the API
BatchAnalyze(api) ==
    /\ pb_pc = "next"
    /\ pdf_files[pb_idx].text_length > 0
    /\ LET pdf_path == pdf_files[pb_idx]
           analysis == analyze_pdf_with_prompt(pdf_path.text_length, api)
       IN  /\ api_log' = IF analysis.called
                         THEN Append(api_log, [pdf |-> pdf_path, ok |-> api.ok])
                         ELSE api_log
           /\ IF analysis.raised
              THEN /\ pb_pc' = "Exception_api"
                   /\ UNCHANGED <<pb_results, total_tokens>>
              ELSE /\ pb_results' =
                          DictSet(pb_results, pdf_path.name,
                              ResultEntry("analysed", pdf_path, analysis.status,
                                          analysis.tokens_used,
                                          pdf_path.text_length))
                   /\ total_tokens' =
                          IF analysis.tokens_used # 0
                          THEN total_tokens + analysis.tokens_used
                          ELSE total_tokens
                   /\ pb_pc' = "save_open"
    /\ UNCHANGED <<pdf_files, pb_idx, store, saved_data>>
    /\ UNCHANGED <<textVars, cacheVars, moveVars, pdfEnv, restVars>>

\* save_results: open(temp_file, 'w')
SaveOpen ==
    /\ pb_pc = "save_open"
    /\ store' = open_w(store, temp_file(OutputFile),
                       output_data(pb_results, total_tokens))
    /\ pb_pc' = "save_dump"
    /\ UNCHANGED <<pdf_files, pb_idx, pb_results, total_tokens, api_log,
                   saved_data>>
    /\ UNCHANGED <<textVars, cacheVars, moveVars, pdfEnv, restVars>>

\* save_results: json.dump and the end of the with block
SaveDump ==
    /\ pb_pc = "save_dump"
    /\ store' = json_dump(store, temp_file(OutputFile),
                          output_data(pb_results, total_tokens))
    /\ pb_pc' = "save_move"
    /\ UNCHANGED <<pdf_files, pb_idx, pb_results, total_tokens, api_log,
                   saved_data>>
    /\ UNCHANGED <<textVars, cacheVars, moveVars, pdfEnv, restVars>>

\* save_results: shutil.move(temp_file, output_file); then the next turn,
\* or the return after the last one
SaveMove ==
    /\ pb_pc = "save_move"
    /\ store' = shutil_move(store, temp_file(OutputFile), OutputFile)
    /\ saved_data' = saved_data \cup {output_data(pb_results, total_tokens)}
    /\ pb_idx' = pb_idx + 1
    /\ pb_pc' = IF pb_idx = Len(pdf_files) THEN "returned" ELSE "next"
    /\ UNCHANGED <<pdf_files, pb_results, total_tokens, api_log>>
    /\ UNCHANGED <<textVars, cacheVars, moveVars, pdfEnv, restVars>>

\* the process is stopped (a signal, a crash, an exception leaving
\* save_results) wherever it is
Interrupt ==
    /\ pb_pc \in {"next", "save_open", "save_dump", "save_move"}
    /\ pb_pc' = "stopped"
    /\ UNCHANGED <<pdf_files, pb_idx, pb_results, total_tokens, api_log,
                   store, saved_data>>
    /\ UNCHANGED <<textVars, cacheVars, moveVars, pdfEnv, restVars>>

PdfNext ==
    \/ NewAnalyzer
    \/ BatchStart
    \/ BatchSkip
    \/ \E api \in ApiOutcomes : BatchAnalyze(api)
    \/ SaveOpen
    \/ SaveDump
    \/ SaveMove
    \/ Interrupt

SpecPdf == PdfInit /\ [][PdfNext]_vars

(***************************************************************************)
(* InvoiceProcessor.process_invoices over one folder.                      *)
(***************************************************************************)
coreVars == <<textVars, cacheVars, moveVars, pdfVars, runVars>>
CoreIdle == TextIdle /\ CacheIdle /\ MoveIdle /\ PdfIdle /\ RunsIdle

InvoiceInit ==
    /\ CoreIdle
    /\ DedupIdle
    /\ GenIdle
    /\ ImageIdle
    /\ ProcIdle
    /\ inv_exists \in BOOLEAN
    /\ inv_files \in (IF inv_exists THEN InvoiceFolders ELSE {<<>>})
    /\ inv_pc = "idle"
    /\ inv_i = 1
    /\ invoice_data = <<>>
    /\ seen_invoice_numbers = {}

\* process_invoices up to its loop: FileNotFoundError when the folder does
\* not exist, [] when it holds no PDF
ProcessInvoicesStart ==
    /\ inv_pc = "idle"
    /\ inv_pc' = IF ~inv_exists THEN "FileNotFoundError"
                 ELSE IF inv_files = <<>> THEN "returned" ELSE "loop"
    /\ UNCHANGED <<inv_exists, inv_files, inv_i, invoice_data,
                   seen_invoice_numbers>>
    /\ UNCHANGED <<coreVars, imageVars, procVars, genVars, dedupVars>>

\* one turn of the loop; after the last the function returns invoice_data
ProcessInvoicesTurn ==
    /\ inv_pc = "loop"
    /\ LET t == process_invoices_turn(inv_files[inv_i], seen_invoice_numbers)
       IN  /\ invoice_data' = invoice_data \o t.records
           /\ seen_invoice_numbers' = t.seen
           /\ inv_pc' = IF t.raised THEN "Exception"
                        ELSE IF inv_i = Len(inv_files) THEN "returned"
                        ELSE "loop"
    /\ inv_i' = inv_i + 1
    /\ UNCHANGED <<inv_exists, inv_files>>
    /\ UNCHANGED <<coreVars, imageVars, procVars, genVars, dedupVars>>

InvoiceNext ==
    \/ ProcessInvoicesStart
    \/ ProcessInvoicesTurn

SpecInvoice == InvoiceInit /\ [][InvoiceNext]_vars

(***************************************************************************)
(* The image text extractor: one call of batch_extract_text_from_folder    *)
(* or of batch_extract_and_merge on a folder.                              *)
(***************************************************************************)
ImageInit ==
    /\ CoreIdle
    /\ DedupIdle
    /\ GenIdle
    /\ InvoiceIdle
    /\ ProcIdle
    /\ OCR_AVAILABLE \in BOOLEAN
    /\ img_folder \in ImageFolders
    /\ img_op = ""
    /\ img_pc = "idle"
    /\ image_files = <<>>
    /\ img_i = 1
    /\ success_count = 0
    /\ failed_count = 0
    /\ all_extracted_text = <<>>
    /\ img_written = {}
    /\ img_result = Stats(0, 0, 0, FALSE)

\* batch_extract_text_from_folder(folder_path) up to its loop
BatchExtractStart ==
    /\ img_pc = "idle"
    /\ img_op' = "batch_extract_text_from_folder"
    /\ IF ~img_folder.exists
       THEN /\ img_pc' = "returned"
            /\ UNCHANGED image_files
       ELSE /\ image_files' = image_files_of(img_folder)
            /\ img_pc' = IF NoImages(image_files_of(img_folder))
                         THEN "returned" ELSE "loop"
    /\ UNCHANGED <<OCR_AVAILABLE, img_folder, img_i, success_count,
                   failed_count, all_extracted_text, img_written, img_result>>
    /\ UNCHANGED <<coreVars, invoiceVars, procVars, genVars, dedupVars>>

\* batch_extract_and_merge(folder_path) up to its loop
MergeStart ==
    /\ img_pc = "idle"
    /\ img_op' = "batch_extract_and_merge"
    /\ IF ~OCR_AVAILABLE \/ ~img_folder.exists
       THEN /\ img_pc' = "returned"
            /\ UNCHANGED image_files
       ELSE /\ image_files' = image_files_of(img_folder)
            /\ img_pc' = IF NoImages(image_files_of(img_folder))
                         THEN "returned" ELSE "loop"
    /\ UNCHANGED <<OCR_AVAILABLE, img_folder, img_i, success_count,
                   failed_count, all_extracted_text, img_written, img_result>>
    /\ UNCHANGED <<coreVars, invoiceVars, procVars, genVars, dedupVars>>

\* the end of a loop that has no image left: batch_extract_text_from_folder
\* returns its statistics, batch_extract_and_merge goes on to write
LoopEnd ==
    /\ img_pc = "loop"
    /\ img_i > Len(image_files)
    /\ IF img_op = "batch_extract_text_from_folder"
       THEN /\ img_pc' = "returned"
            /\ img_result' = Stats(success_count, failed_count,
                                   Len(image_files), TRUE)
       ELSE /\ img_pc' = "write"
            /\ UNCHANGED img_result
    /\ UNCHANGED <<OCR_AVAILABLE, img_folder, img_op, image_files, img_i,
                   success_count, failed_count, all_extracted_text,
                   img_written>>
    /\ UNCHANGED <<coreVars, invoiceVars, procVars, genVars, dedupVars>>

\* one turn of the loop of batch_extract_text_from_folder
BatchExtractImage ==
    /\ img_pc = "loop"
    /\ img_op = "batch_extract_text_from_folder"
    /\ img_i <= Len(image_files)
    /\ LET r == extract_text_from_image(OCR_AVAILABLE, image_files[img_i])
       IN  /\ img_written' = img_written \cup r.written
           /\ success_count' = IF r.none THEN success_count
                               ELSE success_count + 1
           /\ failed_count' = IF r.none THEN failed_count + 1
                              ELSE failed_count
    /\ img_i' = img_i + 1
    /\ UNCHANGED <<OCR_AVAILABLE, img_folder, img_op, img_pc, image_files,
                   all_extracted_text, img_result>>
    /\ UNCHANGED <<coreVars, invoiceVars, procVars, genVars, dedupVars>>

\* one turn of the loop of batch_extract_and_merge
MergeImage ==
    /\ img_pc = "loop"
    /\ img_op = "batch_extract_and_merge"
    /\ img_i <= Len(image_files)
    /\ IF image_files[img_i].ocr = "text"
       THEN /\ all_extracted_text' =
                   Append(all_extracted_text, image_files[img_i].name)
            /\ success_count' = success_count + 1
            /\ UNCHANGED failed_count
       ELSE /\ failed_count' = failed_count + 1
            /\ UNCHANGED <<all_extracted_text, success_count>>
    /\ img_i' = img_i + 1
    /\ UNCHANGED <<OCR_AVAILABLE, img_folder, img_op, img_pc, image_files,
                   img_written, img_result>>
    /\ UNCHANGED <<coreVars, invoiceVars, procVars, genVars, dedupVars>>

\* batch_extract_and_merge writing the merged file, which can fail, and
\* returning
MergeWrite(write_ok) ==
    /\ img_pc = "write"
    /\ img_written' = IF write_ok THEN img_written \cup {MergedTxt}
                      ELSE img_written
    /\ img_result' = Stats(success_count, failed_count, Len(image_files), TRUE)
    /\ img_pc' = "returned"
    /\ UNCHANGED <<OCR_AVAILABLE, img_folder, img_op, image_files, img_i,
                   success_count, failed_count, all_extracted_text>>
    /\ UNCHANGED <<coreVars, invoiceVars, procVars, genVars, dedupVars>>

ImageNext ==
    \/ BatchExtractStart
    \/ MergeStart
    \/ LoopEnd
    \/ BatchExtractImage
    \/ MergeImage
    \/ \E write_ok \in BOOLEAN : MergeWrite(write_ok)

SpecImage == ImageInit /\ [][ImageNext]_vars

(***************************************************************************)
(* ProcurementProcessor.process_image_to_excel on one picture.             *)
(***************************************************************************)
ProcInit ==
    /\ CoreIdle
    /\ DedupIdle
    /\ GenIdle
    /\ InvoiceIdle
    /\ ImageIdle
    /\ proc_image \in Pictures
    /\ proc_output \in {"none", "out.xlsx"}
    /\ proc_pc = "idle"
    /\ procurement_info = EmptyInfo
    /\ proc_excel = {}
    /\ proc_return = NoReturn

\* process_image_to_excel up to its call of create_procurement_excel
ProcessImage ==
    /\ proc_pc = "idle"
    /\ IF ~proc_image.exists
       THEN /\ procurement_info' = EmptyInfo
            /\ proc_pc' = "excel"
       ELSE LET r == extract_info_from_image(proc_image)
            IN  /\ procurement_info' = IF r.none THEN EmptyInfo ELSE r.info
                /\ proc_pc' = IF r.raised THEN "Exception" ELSE "excel"
    /\ UNCHANGED <<proc_image, proc_output, proc_excel, proc_return>>
    /\ UNCHANGED <<coreVars, invoiceVars, imageVars, genVars, dedupVars>>

\* create_procurement_excel(procurement_info, output_path) and the return
CreateExcel ==
    /\ proc_pc = "excel"
    /\ proc_excel' = proc_excel \cup
           {[path |-> excel_path_of(proc_output),
             row |-> ExcelRow(procurement_info)]}
    /\ proc_return' = [excel_path |-> excel_path_of(proc_output),
                       info |-> procurement_info]
    /\ proc_pc' = "returned"
    /\ UNCHANGED <<proc_image, proc_output, procurement_info>>
    /\ UNCHANGED <<coreVars, invoiceVars, imageVars, genVars, dedupVars>>

ProcNext ==
    \/ ProcessImage
    \/ CreateExcel

SpecProc == ProcInit /\ [][ProcNext]_vars

(***************************************************************************)
(* generate_procurement_request on one list of orders.                     *)
(***************************************************************************)
GenInit ==
    /\ CoreIdle
    /\ DedupIdle
    /\ InvoiceIdle
    /\ ImageIdle
    /\ ProcIdle
    /\ orders_data \in OrderLists
    /\ gen_pc = "start"
    /\ row_idx = 3
    /\ gen_ws = <<>>
    /\ gen_raised = FALSE
    /\ gen_file = <<>>

\* the title of row 1 and the headers of row 2
WriteHeaders ==
    /\ gen_pc = "start"
    /\ gen_ws' = SetRow(SetRow(gen_ws, 1, TitleRow), 2, headers)
    /\ gen_pc' = "rows"
    /\ UNCHANGED <<orders_data, row_idx, gen_raised, gen_file>>
    /\ UNCHANGED <<coreVars, invoiceVars, imageVars, procVars, dedupVars>>

\* one turn of the loop over enumerate(orders_data, 3)
WriteRow ==
    /\ gen_pc = "rows"
    /\ row_idx - 2 <= Len(orders_data)
    /\ gen_ws' = SetRow(gen_ws, row_idx, DataRow(orders_data[row_idx - 2]))
    /\ row_idx' = row_idx + 1
    /\ UNCHANGED <<orders_data, gen_pc, gen_raised, gen_file>>
    /\ UNCHANGED <<coreVars, invoiceVars, imageVars, procVars, dedupVars>>

\* wb.save(output_file) after the loop; what it raises is caught
SaveWorkbook(save_ok) ==
    /\ gen_pc = "rows"
    /\ row_idx - 2 > Len(orders_data)
    /\ gen_file' = IF save_ok THEN gen_ws ELSE gen_file
    /\ gen_raised' = ~save_ok
    /\ gen_pc' = "done"
    /\ UNCHANGED <<orders_data, row_idx, gen_ws>>
    /\ UNCHANGED <<coreVars, invoiceVars, imageVars, procVars, dedupVars>>

GenNext ==
    \/ WriteHeaders
    \/ WriteRow
    \/ \E save_ok \in BOOLEAN : SaveWorkbook(save_ok)

SpecGen == GenInit /\ [][GenNext]_vars

(***************************************************************************)
(* TBDDeduplicator.deduplicate_files over one tbd folder.                  *)
(***************************************************************************)
DedupInit ==
    /\ CoreIdle
    /\ InvoiceIdle
    /\ ImageIdle
    /\ ProcIdle
    /\ GenIdle
    /\ dd_tbd \in DupTrees
    /\ dd_duplicates = {}
    /\ dd_dry_run \in BOOLEAN
    /\ dd_pc = "idle"
    /\ duplicate_results = NoneFound
    /\ dd_k = 1
    /\ dd_results = DedupResults(0, 0, 0, <<>>, <<>>, <<>>, FALSE)
    /\ dd_before = dd_tbd

\* deduplicate_files(dry_run) up to its loops: find_duplicates, and the
\* return when nothing is duplicated
DeduplicateStart ==
    /\ dd_pc = "idle"
    /\ LET found == find_duplicates(dd_tbd)
       IN  /\ duplicate_results' = found
           /\ dd_results' =
                  DedupResults(0, 0, 0, <<>>, <<>>, <<>>,
                      found.duplicate_groups = <<>>
                          /\ found.exact_duplicates = <<>>)
           /\ dd_pc' = IF found.duplicate_groups # <<>> THEN "groups"
                       ELSE IF found.exact_duplicates # <<>> THEN "exact"
                       ELSE "returned"
    /\ UNCHANGED <<dd_tbd, dd_duplicates, dd_dry_run, dd_k, dd_before>>
    /\ UNCHANGED <<coreVars, invoiceVars, imageVars, procVars, genVars>>

\* one turn of the loop over the groups of one invoice number
DedupGroup ==
    /\ dd_pc = "groups"
    /\ LET st == dedup_group(
                     DedupState(dd_tbd, dd_duplicates, dd_results, FALSE),
                     duplicate_results.duplicate_groups[dd_k], dd_dry_run)
           last == dd_k = Len(duplicate_results.duplicate_groups)
       IN  /\ dd_tbd' = st.tbd
           /\ dd_duplicates' = st.duplicates
           /\ dd_results' = st.results
           /\ dd_k' = IF last THEN 1 ELSE dd_k + 1
           /\ dd_pc' = IF ~last THEN "groups"
                       ELSE IF duplicate_results.exact_duplicates # <<>>
                       THEN "exact"
                       ELSE "returned"
    /\ UNCHANGED <<dd_dry_run, duplicate_results, dd_before>>
    /\ UNCHANGED <<coreVars, invoiceVars, imageVars, procVars, genVars>>

\* one turn of the loop over the groups of one hash, and the return after
\* the last one
DedupExact ==
    /\ dd_pc = "exact"
    /\ LET st == dedup_exact(
                     DedupState(dd_tbd, dd_duplicates, dd_results, FALSE),
                     duplicate_results.exact_duplicates[dd_k], dd_dry_run)
           last == dd_k = Len(duplicate_results.exact_duplicates)
       IN  /\ dd_tbd' = st.tbd
           /\ dd_duplicates' = st.duplicates
           /\ dd_results' = st.results
           /\ dd_k' = IF last THEN 1 ELSE dd_k + 1
           /\ dd_pc' = IF last THEN "returned" ELSE "exact"
    /\ UNCHANGED <<dd_dry_run, duplicate_results, dd_before>>
    /\ UNCHANGED <<coreVars, invoiceVars, imageVars, procVars, genVars>>

DedupNext ==
    \/ DeduplicateStart
    \/ DedupGroup
    \/ DedupExact

SpecDedup == DedupInit /\ [][DedupNext]_vars

(***************************************************************************)
(* The two programs that clear tbd: one run of move_reimbursed_invoices or *)
(* one run of deduplicate_files.                                           *)
(***************************************************************************)
TbdInit == MoveInit \/ DedupInit

TbdNext ==
    \/ MoveNext
    \/ DedupNext

SpecTbd == TbdInit /\ [][TbdNext]_vars

(***************************************************************************)
(* Two runs of the program at the same time: each builds its own           *)
(* InvoiceNumberExtractor on the one cache file and calls                  *)
(* extract_all_invoice_numbers; the operating system interleaves them      *)
(* between the load, the scan and the write of the file, while reimbursed  *)
(* PDFs are stored, replaced or deleted.                                   *)
(***************************************************************************)
\* what the steps of the runs leave alone
RunFrame ==
    /\ UNCHANGED <<invoice_number_set, invoice_to_files, last_call, last_saved,
                   extracted_from>>
    /\ UNCHANGED <<textVars, moveVars, pdfVars>>
    /\ UNCHANGED <<invoiceVars, imageVars, procVars, genVars, dedupVars>>

RunsInit ==
    /\ TextIdle /\ CacheIdle /\ MoveIdle /\ PdfIdle
    /\ InvoiceIdle /\ ImageIdle /\ ProcIdle /\ GenIdle /\ DedupIdle
    /\ RunsAt("start")

\* InvoiceNumberExtractor() of run r: empty set and map, then load_cache
RunConstruct(r) ==
    /\ run_pc[r] = "start"
    /\ LET c == load_cache(cache_file, {}, EmptyMap)
       IN  /\ run_set' = [run_set EXCEPT ![r] = c.set]
           /\ run_map' = [run_map EXCEPT ![r] = c.map]
    /\ run_pc' = [run_pc EXCEPT ![r] = "loaded"]
    /\ UNCHANGED <<fs, env_changes, cache_file, run_saved, last_writer>>
    /\ RunFrame

\* extract_all_invoice_numbers(force_refresh) of run r up to its
\* save_cache: the return on a cache hit or without PDFs, or the scan
RunScan(r, force_refresh) ==
    /\ run_pc[r] = "loaded"
    /\ LET res == extract_all_invoice_numbers(fs, run_set[r], run_map[r],
                      force_refresh, TRUE)
       IN  /\ run_set' = [run_set EXCEPT ![r] = res.cache.set]
           /\ run_map' = [run_map EXCEPT ![r] = res.cache.map]
           /\ run_pc' = [run_pc EXCEPT ![r] = IF res.saves THEN "scanned"
                                               ELSE "done"]
    /\ UNCHANGED <<fs, env_changes, cache_file, run_saved, last_writer>>
    /\ RunFrame

\* the save_cache that ends the scan of run r
RunSave(r, how) ==
    /\ run_pc[r] = "scanned"
    /\ cache_file' = save_cache(cache_file, run_set[r], run_map[r], how)
    /\ run_saved' = [run_saved EXCEPT ![r] = how]
    /\ last_writer' = IF how = "open_failed" THEN last_writer ELSE r
    /\ run_pc' = [run_pc EXCEPT ![r] = "done"]
    /\ UNCHANGED <<fs, env_changes, run_set, run_map>>
    /\ RunFrame

\* a reimbursed PDF is stored, replaced or deleted while the runs go on
RunsEnvChange(p, d) ==
    /\ \E r \in Runs : run_pc[r] # "idle"
    /\ env_changes < MaxEnv
    /\ fs[p] # d
    /\ fs' = [fs EXCEPT ![p] = d]
    /\ env_changes' = env_changes + 1
    /\ UNCHANGED <<cache_file, runVars>>
    /\ RunFrame

RunsNext ==
    \/ \E r \in Runs : RunConstruct(r)
    \/ \E r \in Runs, f \in BOOLEAN : RunScan(r, f)
    \/ \E r \in Runs, how \in SaveOutcomes : RunSave(r, how)
    \/ \E p \in BasePaths, d \in 0..NDocs : RunsEnvChange(p, d)

SpecRuns == RunsInit /\ [][RunsNext]_vars

(***************************************************************************)
(* Properties of the extraction functions (SpecText).                      *)
(***************************************************************************)
FromPdfCallers ==
    { "InvoiceNumberExtractor.extract_invoice_numbers_from_pdf",
      "ReimbursedInvoiceChecker.extract_invoice_numbers_from_pdf" }

TextThenOcrCallers == FromPdfCallers \cup {"InvoiceProcessor.process_invoices"}

\* C2, as the claim states it: a PDF whose direct-extracted text has at
\* least 100 characters never has pdf_to_image_ocr called on it.
C2_NoOcrFromRawLength ==
    (called \in TextThenOcrCallers /\ doc.direct.ok
         /\ StrLen(doc.direct.text) >= 100)
        => result.ocr_calls = 0

\* C2, amended: a PDF whose direct-extracted text has at least 100
\* characters once its leading and trailing whitespace is stripped never
\* has pdf_to_image_ocr called on it (the OCR call count is zero).
C2_NoOcrFromStrippedLength ==
    (called \in TextThenOcrCallers /\ doc.direct.ok
         /\ StrLen(Strip(doc.direct.text)) >= 100)
        => result.ocr_calls = 0

\* a text of exactly 100 characters went through without OCR
C2_Witness ==
    /\ called = "InvoiceNumberExtractor.extract_invoice_numbers_from_pdf"
    /\ doc.direct.ok /\ doc.ocr.ok
    /\ StrLen(Strip(doc.direct.text)) = 100
    /\ result.ocr_calls = 0
    /\ result.matched = {doc.direct.text}

\* what pdf_to_image_ocr gives for the document: the page's OCR text and a
\* line break, or the empty string when the OCR raised
OcrOutput(d) == IF d.ocr.ok THEN d.ocr.text \o <<Tok("ws", 0, 1)>> ELSE <<>>

\* the direct text of the document, empty when the extraction raised
DirectOutput(d) == IF d.direct.ok THEN d.direct.text ELSE <<>>

IsBlank(text) == \A i \in 1..Len(text) : text[i].k = "ws"

\* C3: once the direct text is under the threshold, the text that is
\* pattern-matched is the OCR output and never the direct text, also when
\* the OCR output is empty or shorter; a blank OCR output gives no number.
C3_OcrReplacesDirectText ==
    (called \in FromPdfCallers
         /\ StrLen(Strip(DirectOutput(doc))) < 100)
        => /\ result.ocr_calls = 1
           /\ result.matched \subseteq {OcrOutput(doc)}
           /\ IsBlank(OcrOutput(doc)) =>
                  (result.matched = {} /\ result.numbers = <<>>)
           /\ ~IsBlank(OcrOutput(doc)) => result.matched = {OcrOutput(doc)}

\* a short direct text that holds an invoice number, an OCR that returns
\* nothing, and no number extracted
C3_Witness ==
    /\ called = "ReimbursedInvoiceChecker.extract_invoice_numbers_from_pdf"
    /\ doc.direct.ok /\ doc.ocr.ok /\ doc.ocr.text = <<>>
    /\ \E i \in 1..Len(doc.direct.text) :
           doc.direct.text[i].k = "haoma" /\ doc.direct.text[i].n >= 8
    /\ StrLen(doc.direct.text) < 100
    /\ result.numbers = <<>>

\* whether token t holds a match of pattern p (1: 发票号码, 2: 发票代码,
\* 3: No, 4: 20 digits or more), stated on the token itself
TokenMatches(p, t) ==
    CASE p = 1 -> t.k = "haoma" /\ t.n >= 8
      [] p = 2 -> t.k = "daima" /\ t.n >= 10
      [] p = 3 -> t.k = "no" /\ t.n >= 8
      [] OTHER -> t.k \in {"haoma", "daima", "no", "dig"} /\ t.n >= 20

\* group 1 of the match of pattern p in token t
TokenGroup(p, t) == [id |-> t.id, len |-> IF p = 2 /\ t.n > 12 THEN 12 ELSE t.n]

PatternMatchesText(p, text) == \E i \in 1..Len(text) : TokenMatches(p, text[i])

\* the place of the leftmost match of pattern p in text
FirstPlace(p, text) ==
    CHOOSE i \in 1..Len(text) :
        /\ TokenMatches(p, text[i])
        /\ \A j \in 1..(i - 1) : ~TokenMatches(p, text[j])

\* C4: the invoice number of extract_invoice_info is group 1 of the
\* leftmost match of the first pattern of the ordered list that matches;
\* a text with a match of 发票号码[：:](\d{8,}) gives that group, whatever
\* the later patterns match; with no match the field stays empty.
C4_FirstPatternWins ==
    called = "InvoiceProcessor.extract_invoice_info" =>
        LET text == doc.direct.text
            hit == { p \in 1..4 : PatternMatchesText(p, text) }
        IN  /\ Len(result.numbers) = 1
            /\ hit = {} => result.numbers[1] = [id |-> 0, len |-> 0]
            /\ \A p \in hit :
                   (\A q \in hit : p <= q) =>
                       result.numbers[1] =
                           TokenGroup(p, text[FirstPlace(p, text)])
            /\ 1 \in hit =>
                   result.numbers[1] = TokenGroup(1, text[FirstPlace(1, text)])

\* 发票号码 matched, a later pattern matched another substring earlier in
\* the text, and the 发票号码 group was returned
C4_Witness ==
    /\ called = "InvoiceProcessor.extract_invoice_info"
    /\ Len(doc.direct.text) = 2
    /\ doc.direct.text[1] = Tok("dig", 2, 20)
    /\ doc.direct.text[2] = Tok("haoma", 1, 8)
    /\ result.numbers = <<[id |-> 1, len |-> 8]>>

FromTextCallers ==
    FromPdfCallers \cup {"TBDDeduplicator.extract_invoice_numbers_from_text"}

\* the pairs (pattern, place) of the matches in text
MatchPairs(text) ==
    { pi \in (1..4) \X (1..Len(text)) : TokenMatches(pi[1], text[pi[2]]) }

\* the rank of a pair: pattern order first, place in the text second
Rank(pi, text) ==
    Cardinality({ qj \in MatchPairs(text) :
                      \/ qj[1] < pi[1]
                      \/ qj[1] = pi[1] /\ qj[2] <= pi[2] })

\* C5, as the claim states it: the first pattern of the list that matches
\* wins, and the later patterns add no invoice number to the list.
C5_FirstMatchWins ==
    called \in FromTextCallers =>
        \A text \in result.matched :
            \A p \in 1..4 :
                (PatternMatchesText(p, text)
                     /\ \A q \in 1..(p - 1) : ~PatternMatchesText(q, text))
                    => \A j \in 1..Len(result.numbers) :
                           \E i \in 1..Len(text) :
                               /\ TokenMatches(p, text[i])
                               /\ result.numbers[j] = TokenGroup(p, text[i])

\* C5, amended: every pattern of the ordered list is applied; the list
\* returned holds group 1 of every match of every pattern, pattern by
\* pattern in list order and left to right within a pattern, so a match of
\* an earlier pattern does not stop a later one from adding numbers.
C5_AllPatternsAccumulate ==
    called \in FromTextCallers =>
        \A text \in result.matched :
            /\ Len(result.numbers) = Cardinality(MatchPairs(text))
            /\ \A pi \in MatchPairs(text) :
                   result.numbers[Rank(pi, text)] = TokenGroup(pi[1], text[pi[2]])

\* 发票代码 and 20-digit patterns both matched one digit run, and the list
\* holds both groups, the 12-digit one first
C5_Witness ==
    /\ called = "TBDDeduplicator.extract_invoice_numbers_from_text"
    /\ doc.direct.text = <<Tok("daima", 2, 22)>>
    /\ result.numbers = <<[id |-> 2, len |-> 12], [id |-> 2, len |-> 22]>>

(***************************************************************************)
(* Properties of the cache (SpecCache).                                    *)
(***************************************************************************)
\* the invoice numbers a query can ask for: those of the sample documents
\* and one that is in no document
Queries ==
    { [id |-> 1, len |-> 20], [id |-> 2, len |-> 8], [id |-> 9, len |-> 8] }

\* C6: a cache saved and then loaded by a fresh InvoiceNumberExtractor
\* answers check_invoice_number (exists, is_reimbursed, files) as the cache
\* in memory did when it was saved, for every number and both include_tbd.
C6_CacheRoundTrip ==
    (last_call.op = "__init__" /\ last_saved.valid) =>
        \A q \in Queries, include_tbd \in BOOLEAN :
            check_invoice_number(invoice_to_files, q, include_tbd)
                = check_invoice_number(last_saved.map, q, include_tbd)

\* a fresh extractor has loaded a saved cache in which one number is known
\* from a reimbursed file and another from a tbd file only
C6_Witness ==
    /\ last_call.op = "__init__" /\ last_saved.valid
    /\ \E q \in Queries :
           check_invoice_number(invoice_to_files, q, FALSE).is_reimbursed
    /\ \E q \in Queries :
           /\ check_invoice_number(invoice_to_files, q, TRUE).exists
           /\ ~check_invoice_number(invoice_to_files, q, FALSE).exists

\* the files a scan with include_tbd looks at
Scanned(include_tbd) ==
    { p \in Paths : fs[p] # 0 /\ (include_tbd \/ ~UnderTbd(p)) }

\* the invoice numbers a scan reads from the file at p
NumbersFoundIn(p) ==
    LET r == extract_invoice_numbers_from_pdf(FileDocs[fs[p]])
    IN  { r.numbers[i] : i \in 1..Len(r.numbers) }

\* the files invoice_to_files lists for number n
FilesListed(n) ==
    IF n \in DOMAIN invoice_to_files
    THEN { invoice_to_files[n][i] : i \in 1..Len(invoice_to_files[n]) }
    ELSE {}

\* C7: after extract_all_invoice_numbers(force_refresh=True) the set and
\* the map hold exactly the numbers and files this scan found; no entry of
\* the cache loaded before survives unless the scan found it again.
C7_ForcedRescanRebuilds ==
    (last_call.op = "extract_all_invoice_numbers" /\ last_call.force_refresh) =>
        LET files == Scanned(last_call.include_tbd)
        IN  /\ invoice_number_set = UNION { NumbersFoundIn(p) : p \in files }
            /\ DOMAIN invoice_to_files = invoice_number_set
            /\ \A n \in invoice_number_set :
                   FilesListed(n) = { p \in files : n \in NumbersFoundIn(p) }

\* whether reading the document hit a failure: the direct extraction
\* raised, or the OCR was called and raised
ReadFailed(d) ==
    \/ ~d.direct.ok
    \/ StrLen(Strip(d.direct.text)) < 100 /\ ~d.ocr.ok

\* C10, as the claim states it: a file whose direct extraction or OCR
\* failed gives an empty list, so it is in no file list of the cache, and
\* the scan is not terminated.
C10_FailureGivesNoNumber ==
    (last_call.op = "extract_all_invoice_numbers" /\ last_call.force_refresh
         /\ Scanned(last_call.include_tbd) # {}) =>
        /\ ~last_call.raised
        /\ \A p \in Scanned(last_call.include_tbd) :
               ReadFailed(FileDocs[fs[p]]) =>
                   \A n \in DOMAIN invoice_to_files : p \notin FilesListed(n)

\* the text a file's numbers come from when every failure is read as the
\* empty string
TextRead(d) ==
    IF StrLen(Strip(DirectOutput(d))) >= 100 THEN DirectOutput(d)
    ELSE OcrOutput(d)

\* C10, amended: a failure of the direct extraction is read as the empty
\* string, which sends the file to OCR, and a failure of OCR is read as the
\* empty string; the file contributes the numbers of the text so obtained
\* (none when it is blank), the files listed after it are still scanned,
\* and no extraction error terminates the scan.
C10_FailureIsEmptyText ==
    (last_call.op = "extract_all_invoice_numbers" /\ last_call.force_refresh
         /\ Scanned(last_call.include_tbd) # {}) =>
        /\ ~last_call.raised
        /\ \A p \in Scanned(last_call.include_tbd) :
               LET text == TextRead(FileDocs[fs[p]])
               IN  { n \in DOMAIN invoice_to_files : p \in FilesListed(n) }
                       = { TokenGroup(pi[1], text[pi[2]]) : pi \in MatchPairs(text) }

\* a scan met a file neither reader could read and went on to list the
\* numbers of the file after it
C10_Witness ==
    /\ last_call.op = "extract_all_invoice_numbers" /\ last_call.force_refresh
    /\ ~last_call.raised
    /\ \E p, q \in Scanned(last_call.include_tbd) :
           /\ DirRank(p) < DirRank(q)
           /\ FileDocs[fs[p]] = Doc(Fails, Fails)
           /\ \E n \in DOMAIN invoice_to_files : q \in FilesListed(n)
    /\ cache_file.state = "pickle"

(***************************************************************************)
(* Properties of the move batch (SpecMove).                                *)
(***************************************************************************)
\* whether the cache knows number n from a file outside tbd
KnownOutsideTbd(n) == \E f \in FilesListed(n) : ~UnderTbd(f)

\* the turns of the loop that counted their file as c
CountedAs(c) == { i \in 1..Len(handled) : handled[i].counted = c }

\* C1: a tbd PDF with a non-empty list of extracted numbers, once looked
\* up, is counted as reimbursed (and, when not a dry run and nothing
\* raises, moved to tbd/done) if and only if at least one of its numbers is
\* known to the cache from a file outside tbd; it is counted as
\* non-reimbursed only when none of them is.
C1_AnyMatchSuffices ==
    /\ results.reimbursed_files = Cardinality(CountedAs("reimbursed"))
    /\ results.non_reimbursed_files = Cardinality(CountedAs("non_reimbursed"))
    /\ \A i \in 1..Len(handled) :
           LET e == handled[i]
               found == \E j \in 1..Len(e.numbers) : KnownOutsideTbd(e.numbers[j])
           IN  (e.numbers # <<>> /\ e.fault # "check") =>
                   /\ e.counted = "reimbursed" <=> found
                   /\ e.counted = "non_reimbursed" <=> ~found
                   /\ fs[TargetPath(e.file)] # 0 => (found /\ ~dry_run)
                   /\ (found /\ ~dry_run /\ e.fault = "none") =>
                          (fs[e.file] = 0 /\ fs[TargetPath(e.file)] # 0)

\* a file with two numbers, one known from a reimbursed file and one not,
\* was counted as reimbursed and moved
C1_Witness ==
    \E i \in 1..Len(handled) :
        LET e == handled[i]
        IN  /\ \E j \in 1..Len(e.numbers) : KnownOutsideTbd(e.numbers[j])
            /\ \E j \in 1..Len(e.numbers) : ~KnownOutsideTbd(e.numbers[j])
            /\ e.counted = "reimbursed"
            /\ fs[e.file] = 0 /\ fs[TargetPath(e.file)] # 0

\* the turns of the loop in which a step raised
Faulted == { i \in 1..Len(handled) : handled[i].fault # "none" }

\* C9: an exception raised while extracting, checking, moving or writing
\* the record for one tbd file is caught and appended to results['errors'],
\* every later file of the list is still handled, and the function ends by
\* returning the dictionary, never by raising.
C9_PerFileIsolation ==
    /\ mv_pc # "raised"
    /\ Len(handled) <= Len(tbd_pdfs)
    /\ \A i \in 1..Len(handled) : handled[i].file = tbd_pdfs[i]
    /\ mv_pc = "loop" => (mv_i = Len(handled) + 1 /\ mv_i <= Len(tbd_pdfs))
    /\ mv_pc = "returned" =>
           (Len(handled) = Len(tbd_pdfs) /\ results.total_files = Len(tbd_pdfs))
    /\ Len(results.errors) = Cardinality(Faulted)
    /\ \A i \in Faulted :
           \E k \in 1..Len(results.errors) :
               results.errors[k] = [file |-> handled[i].file.name,
                                    at |-> handled[i].fault]

\* the move of the first file raised, the second file was then classified,
\* and the function returned with one error
C9_Witness ==
    /\ mv_pc = "returned"
    /\ Len(handled) >= 2
    /\ handled[1].fault = "move"
    /\ handled[2].counted # ""
    /\ Len(results.errors) = 1
    /\ fs[handled[1].file] # 0

(***************************************************************************)
(* Properties of the PDF batch (SpecPdf).                                  *)
(***************************************************************************)
\* C8: at every point of batch_analyze_pdfs, also when it is stopped in the
\* middle of save_results, the file at output_file is absent or holds one
\* complete JSON snapshot written by a completed save; partially written
\* JSON is only ever at output_file + '.tmp'.
C8_AtomicResultFile ==
    /\ store["pdf_analysis.json"].state \in {"absent", "complete"}
    /\ store["pdf_analysis.json"].state = "complete" =>
           store["pdf_analysis.json"].data \in saved_data
    /\ \A p \in DOMAIN store :
           store[p].state = "partial" => p = "pdf_analysis.json.tmp"

\* the batch was stopped in the middle of its second save: the temporary
\* file is partial and the output file holds the first save
C8_Witness ==
    /\ pb_pc = "stopped"
    /\ pb_idx = 2
    /\ store["pdf_analysis.json.tmp"].state = "partial"
    /\ store["pdf_analysis.json"].state = "complete"
    /\ store["pdf_analysis.json"].data.total_files = 1
    /\ store["pdf_analysis.json.tmp"].data.total_files = 2

\* whether neither the argument nor the environment gives an API key
NoApiKeyGiven == api_key = "none" /\ env_api_key = "none"

\* what a file can hold that this run has not written
LeftByEarlierRun ==
    {Absent, File("complete", OldData), File("partial", OldData)}

\* C11: with no api_key argument and no SILICONFLOW_API_KEY the constructor
\* raises ValueError, and before that no PDF is located or read, no API
\* call is made and no output file is written.
C11_MissingKeyIsFatal ==
    NoApiKeyGiven =>
        /\ pb_pc \in {"new", "ValueError_api_key"}
        /\ pdf_files = <<>>
        /\ api_log = <<>>
        /\ pb_results = NoResults
        /\ \A p \in DOMAIN store : store[p] \in LeftByEarlierRun
        /\ saved_data = {OldData}

\* the constructor raised for want of a key although the folder holds a
\* PDF with text
C11_Witness ==
    /\ NoApiKeyGiven
    /\ pb_pc = "ValueError_api_key"
    /\ \E f \in folder.pdfs : f.text_length > 0

\* the PDFs of the first k places of pdf_files that have text
RECURSIVE WithText(_, _)
WithText(l, k) ==
    IF k = 0 THEN <<>>
    ELSE IF l[k].text_length > 0 THEN Append(WithText(l, k - 1), l[k])
    ELSE WithText(l, k - 1)

\* how many PDFs the loop has handled
Handled ==
    { k \in 0..Len(pdf_files) :
          CASE pb_pc \in {"new", "idle", "ValueError_api_key",
                          "ValueError_folder"} -> k = 0
            [] pb_pc = "next" -> k = pb_idx - 1
            [] pb_pc \in {"save_open", "save_dump", "save_move"} -> k = pb_idx
            [] pb_pc = "returned" -> k = Len(pdf_files)
            [] OTHER -> k \in {pb_idx - 1, pb_idx} }

\* C12: the PDFs are handled in sorted order; the API is called at most
\* once per PDF, in that order, and never for a PDF without text, whose
\* entry is 'skipped'; a failed call is recorded as an analysis of status
\* 'error', and the batch goes on to the next PDF: no failed call ends it.
C12_NothingIsRetried ==
    /\ \A i \in 1..(Len(pdf_files) - 1) : PathBefore(pdf_files[i], pdf_files[i + 1])
    /\ pb_idx \in 1..(Len(pdf_files) + 1)
    /\ \E k \in Handled :
           [i \in 1..Len(api_log) |-> api_log[i].pdf] = WithText(pdf_files, k)
    /\ pb_pc = "save_open" =>
           LET pdf_path == pdf_files[pb_idx]
               entry == pb_results[pdf_path.name]
           IN  /\ pdf_path.text_length = 0 <=> entry.kind = "skipped"
               /\ pdf_path.text_length > 0 =>
                      /\ entry.file_path = pdf_path
                      /\ api_log[Len(api_log)].pdf = pdf_path
                      /\ entry.status = IF api_log[Len(api_log)].ok
                                        THEN "success" ELSE "error"
    /\ pb_pc # "Exception_api"
    /\ (pb_pc = "returned" /\ pdf_files # <<>>) => pb_idx = Len(pdf_files) + 1

\* the batch returned after two PDFs with text, found in two sub-folders,
\* the first of whose API calls failed and the second answered
C12_Witness ==
    /\ pb_pc = "returned"
    /\ Len(api_log) = 2
    /\ ~api_log[1].ok /\ api_log[2].ok
    /\ api_log[1].pdf.dir # api_log[2].pdf.dir

\* the sum of tokens_used over the entries of a results dictionary
RECURSIVE TokensOf(_)
TokensOf(res) ==
    IF DOMAIN res = {} THEN 0
    ELSE LET key == CHOOSE k \in DOMAIN res : TRUE
         IN  res[key].tokens_used +
             TokensOf([k \in DOMAIN res \ {key} |-> res[k]])

\* C29: after the k-th PDF of the list found has been handled, the saved
\* JSON has total_files = k and one results entry for each of the k PDFs,
\* and its total_tokens_used is the sum of tokens_used over its entries;
\* the dictionary returned has one entry for each PDF found, PDFs of the
\* same file name in different sub-folders included.
C29_EveryPdfAccounted ==
    (pb_pc \in {"next", "returned"} /\ pb_idx > 1) =>
        LET data == store["pdf_analysis.json"].data
        IN  /\ data.total_files = pb_idx - 1
            /\ Cardinality(DOMAIN data.results) = pb_idx - 1
            /\ data.total_tokens_used = TokensOf(data.results)
            /\ pb_pc = "returned" =>
                   Cardinality(DOMAIN pb_results) = Len(pdf_files)

(***************************************************************************)
(* Properties of process_invoices (SpecInvoice).                           *)
(***************************************************************************)
\* the text process_invoices hands to extract_invoice_info for file i
InvoiceText(i) == TextRead(inv_files[i].doc)

\* the files whose record is made by extract_invoice_info
Extracted ==
    { i \in 1..Len(invoice_data) : Strip(InvoiceText(i)) # <<>> }

\* the places of text where amount pattern p matches
Places(p, text) == { i \in 1..Len(text) : AmountPattern(p, text[i]) }

\* whether the numeral at place i is worth more than 0 and less than
\* 1,000,000
InRangeAt(text, i) == text[i].id > 0 /\ text[i].id < 100000000

Least(S) == CHOOSE i \in S : \A j \in S : i <= j

\* the plain rendering of an amount of c hundredths with two decimals
Plain(c) ==
    [cents |-> c,
     len |-> IF c < 1000 THEN 4 ELSE IF c < 10000 THEN 5
             ELSE IF c < 100000 THEN 6 ELSE IF c < 1000000 THEN 7
             ELSE IF c < 10000000 THEN 8 ELSE IF c < 100000000 THEN 9
             ELSE 10]

\* the record of the scenario text 发票号码：12345678901234567890\n￥1234.56,
\* the first 20 digits of stream 1 being that number
ScenarioText == <<Tok("haoma", 1, 20), Tok("yen", 123456, 7)>>
ScenarioHolds ==
    \A i \in Extracted :
        inv_files[i].doc = ScanPdf(ScenarioText) =>
            /\ invoice_data[i].number = [id |-> 1, len |-> 20]
            /\ invoice_data[i].amount = [cents |-> 123456, len |-> 7]

\* C13, as the claim states it: the scenario text gives its number and
\* 1234.56, and the amount is the first match in range of the first amount
\* pattern that has a match in range, with two decimals.
C13_FirstInRangeMatch ==
    /\ ScenarioHolds
    /\ \A i \in Extracted :
           LET text == InvoiceText(i)
               good(p) == { j \in Places(p, text) : InRangeAt(text, j) }
               hit == { p \in 1..6 : good(p) # {} }
           IN  invoice_data[i].amount =
                   IF hit = {} THEN [cents |-> 0, len |-> 0]
                   ELSE Plain(text[Least(good(Least(hit)))].id)

\* C13, amended: the scenario text gives its number and 1234.56, and the
\* amount is the first match of the first amount pattern whose first match
\* is in range, with two decimals; a pattern whose first match is out of
\* range is passed over, whatever its later matches.
C13_FirstMatchInRange ==
    /\ ScenarioHolds
    /\ \A i \in Extracted :
           LET text == InvoiceText(i)
               hit == { p \in 1..6 :
                            /\ Places(p, text) # {}
                            /\ InRangeAt(text, Least(Places(p, text))) }
           IN  invoice_data[i].amount =
                   IF hit = {} THEN [cents |-> 0, len |-> 0]
                   ELSE Plain(text[Least(Places(Least(hit), text))].id)

\* a folder gave the scenario's record and then the record of a text whose
\* 小写 matches are 0.00 and 12.50: its amount stayed empty
C13_Witness ==
    /\ inv_pc = "returned"
    /\ Len(invoice_data) = 2
    /\ inv_files[1].doc = ScanPdf(ScenarioText)
    /\ invoice_data[1].amount = [cents |-> 123456, len |-> 7]
    /\ inv_files[2].doc = ScanPdf(<<Tok("no", 2, 8), Tok("xiaoxie", 0, 4),
                                    Tok("xiaoxie", 1250, 5)>>)
    /\ invoice_data[2].amount = [cents |-> 0, len |-> 0]

\* C14: the 金额 of every record made by extract_invoice_info is empty or
\* the plain two-decimal rendering of a value more than 0 and less than
\* 1,000,000; a matched numeral outside that range is never stored.
C14_AmountInRange ==
    \A i \in Extracted :
        LET amount == invoice_data[i].amount
            text == InvoiceText(i)
        IN  /\ \/ amount = [cents |-> 0, len |-> 0]
               \/ /\ amount.cents > 0 /\ amount.cents < 100000000
                  /\ amount = Plain(amount.cents)
            /\ \A j \in 1..Len(text), p \in 1..6 :
                   (AmountPattern(p, text[j]) /\ ~InRangeAt(text, j)
                        /\ amount # [cents |-> 0, len |-> 0]) =>
                       amount.cents # text[j].id

\* one text gave 1,000,000.00 after 价税合计 only and its amount stayed
\* empty; another gave 1,234.56 and it was stored as 1234.56
C14_Witness ==
    /\ inv_pc = "returned"
    /\ \E i \in Extracted :
           /\ \E j \in 1..Len(InvoiceText(i)) :
                  InvoiceText(i)[j] = Tok("jiashui", 100000000, 10)
           /\ invoice_data[i].amount = [cents |-> 0, len |-> 0]
    /\ \E i \in Extracted :
           /\ InvoiceText(i)[2] = Tok("xiaoxie_paren", 123456, 8)
           /\ invoice_data[i].amount = [cents |-> 123456, len |-> 7]

\* whether no invoice-number pattern matches the text
NoNumberIn(text) == \A p \in 1..4 : ~PatternMatchesText(p, text)

\* C15: when no invoice-number pattern matches the text of a PDF,
\* process_invoices leaves 发票号码 empty, does not raise, and the record
\* has a 备注 entry recording it.
C15_ParseFailureRecorded ==
    /\ inv_pc # "Exception"
    /\ \A i \in Extracted :
           NoNumberIn(InvoiceText(i)) =>
               /\ invoice_data[i].number = [id |-> 0, len |-> 0]
               /\ invoice_data[i].remarks # <<>>

\* the messages of validate_amount for an amount it rejects
Rejected(amount) ==
    IF amount = [cents |-> 0, len |-> 0] THEN {"no_amount"}
    ELSE IF amount.cents <= 0 THEN {"not_positive"}
    ELSE IF amount.cents > 10000000 THEN {"too_large"}
    ELSE {}

Remarks(rec) == { rec.remarks[j] : j \in 1..Len(rec.remarks) }

\* C16: process_invoices gives one record per PDF of the folder, in file
\* order, and never raises for a file; a record whose amount fails
\* validate_amount, and one whose number repeats that of an earlier
\* record, is appended with a 备注 entry naming the problem; a PDF with no
\* text gives the placeholder with 发票号码 '识别失败' and 金额 '0.00'.
C16_OneRecordPerFile ==
    /\ inv_pc # "Exception"
    /\ inv_pc \in {"loop", "returned"} =>
           Len(invoice_data) = IF inv_files = <<>> THEN 0 ELSE inv_i - 1
    /\ inv_pc = "returned" => Len(invoice_data) = Len(inv_files)
    /\ \A i \in 1..Len(invoice_data) :
           LET rec == invoice_data[i]
           IN  /\ rec.reason = inv_files[i].stem
               /\ i \in Extracted =>
                      /\ Rejected(rec.amount) \subseteq Remarks(rec)
                      /\ (/\ rec.number # [id |-> 0, len |-> 0]
                          /\ \E j \in 1..(i - 1) :
                                 invoice_data[j].number = rec.number)
                             => "duplicate_number" \in Remarks(rec)
               /\ i \notin Extracted =>
                      /\ rec.number = [id |-> 0, len |-> 4]
                      /\ rec.amount = [cents |-> 0, len |-> 4]

\* a folder of two PDFs gave two records: the second repeats the number of
\* the first and holds 150000.00, and carries both remarks
C16_Witness ==
    /\ inv_pc = "returned"
    /\ Len(invoice_data) = 2
    /\ invoice_data[1].number = invoice_data[2].number
    /\ invoice_data[2].number = [id |-> 1, len |-> 20]
    /\ invoice_data[2].amount = [cents |-> 15000000, len |-> 9]
    /\ invoice_data[2].remarks = <<"duplicate_number", "too_large">>

(***************************************************************************)
(* Properties of the image text extractor (SpecImage).                     *)
(***************************************************************************)
\* whether the folder exists and holds no file of a supported format
NoSupportedImage ==
    /\ img_folder.exists
    /\ \A x \in img_folder.files :
           x.ext \notin {"jpg", "jpeg", "png", "bmp", "tiff", "gif",
                         "JPG", "JPEG", "PNG", "BMP", "TIFF", "GIF"}

\* C17: for a folder with no supported image file both
\* batch_extract_text_from_folder and batch_extract_and_merge return
\* success 0, failed 0, total 0 and write no file, neither an
\* *_extracted_text.txt nor merged_extracted_text.txt.
C17_EmptyFolderWritesNothing ==
    NoSupportedImage =>
        /\ img_written = {}
        /\ img_pc \in {"idle", "returned"}
        /\ img_pc = "returned" =>
               /\ img_result.success = 0
               /\ img_result.failed = 0
               /\ img_result.total = 0

\* batch_extract_and_merge returned for a folder that holds only a text
\* file and an image whose extension no pattern matches
C17_Witness ==
    /\ NoSupportedImage
    /\ img_folder.files # {}
    /\ img_op = "batch_extract_and_merge"
    /\ OCR_AVAILABLE
    /\ img_pc = "returned"

(***************************************************************************)
(* Properties of process_image_to_excel (SpecProc).                        *)
(***************************************************************************)
\* whether the record in hand was parsed from the picture's text
Parsed ==
    /\ proc_pc \in {"excel", "returned"}
    /\ proc_image.exists
    /\ proc_image.ocr.ok

\* C18: the text "[Qhebot] 数字大按键模块按键 ¥3.8 红色 x6" is parsed to name
\* "[Qhebot] 数字大按键模块按键", specification 红色, unit price 3.8,
\* quantity 6, unit 个 and total 22.8; for every text total_amount is
\* unit_price times quantity rounded to two decimals.
C18_ParsedOrder ==
    Parsed =>
        /\ proc_image.ocr.text =
               <<[k |-> "bracket", v |-> 1], [k |-> "yen", v |-> 3800],
                 [k |-> "color", v |-> 1], [k |-> "x", v |-> 6]>> =>
               /\ procurement_info.name = [kind |-> "name", v |-> 1]
               /\ procurement_info.specification = [kind |-> "color", v |-> 1]
               /\ procurement_info.unit_price = 3800
               /\ procurement_info.quantity = 6
               /\ procurement_info.unit = "ge"
               /\ procurement_info.total_amount = 2280
        /\ LET product == procurement_info.unit_price * procurement_info.quantity
               total == 10 * procurement_info.total_amount
           IN  /\ total - product <= 5
               /\ product - total < 5

\* the scenario text was parsed from a picture and its record written to
\* the Excel file with the total 22.8
C18_Witness ==
    /\ proc_pc = "returned"
    /\ proc_image.ocr.ok
    /\ proc_image.ocr.text =
           <<[k |-> "bracket", v |-> 1], [k |-> "yen", v |-> 3800],
             [k |-> "color", v |-> 1], [k |-> "x", v |-> 6]>>
    /\ proc_return.info.total_amount = 2280
    /\ \E f \in proc_excel : f.row[6] = 2280

\* C19: when the picture does not exist, or extract_info_from_image fails
\* and returns None, process_image_to_excel does not raise; it uses the
\* empty default record, still writes the Excel file, and returns its path
\* with that record.
C19_EmptyDefaults ==
    (~proc_image.exists \/ ~proc_image.ocr.ok) =>
        /\ proc_pc # "Exception"
        /\ proc_pc \in {"excel", "returned"} =>
               procurement_info =
                   [name |-> [kind |-> "", v |-> 0],
                    specification |-> [kind |-> "", v |-> 0],
                    unit_price |-> 0, quantity |-> 0, unit |-> "ge",
                    total_amount |-> 0]
        /\ proc_pc = "returned" =>
               /\ proc_return.info = procurement_info
               /\ \E f \in proc_excel :
                      /\ f.path = proc_return.excel_path
                      /\ f.row = <<[kind |-> "", v |-> 0], [kind |-> "", v |-> 0],
                                   "ge", 0, 0, 0>>

\* the picture exists, its OCR raised, and the call returned
C19_Witness ==
    /\ proc_image.exists
    /\ ~proc_image.ocr.ok
    /\ proc_pc = "returned"
    /\ proc_excel # {}

\* the price, in thousandths, that the first matching price pattern
\* captures in the text, and the number the first matching quantity pattern
\* captures: empty when no pattern matches
MatchedPrice(text) ==
    { t.v : t \in SearchKinds(<<"yen", "yuan", "jiage">>, text) }

MatchedQuantity(text) ==
    { t.v : t \in SearchKinds(<<"x", "times", "shuliang", "ge">>, text) }

\* C30: in the record parse_procurement_info returns, the unit price is the
\* fallback 3.8 only when no price pattern matches the text and the
\* quantity is the fallback 6 only when no quantity pattern matches it;
\* when a pattern matches, the returned value is the matched one, a matched
\* quantity of 1 and a matched price of 0 included.
C30_FallbackOnlyWithoutMatch ==
    Parsed =>
        /\ \A p \in MatchedPrice(proc_image.ocr.text) :
               procurement_info.unit_price = p
        /\ \A q \in MatchedQuantity(proc_image.ocr.text) :
               procurement_info.quantity = q
        /\ MatchedPrice(proc_image.ocr.text) = {} =>
               procurement_info.unit_price = 3800
        /\ MatchedQuantity(proc_image.ocr.text) = {} =>
               procurement_info.quantity = 6

(***************************************************************************)
(* Properties of generate_procurement_request (SpecGen).                   *)
(***************************************************************************)
\* the amount a value of 金额 stands for: a float is itself, a string is the
\* numeral left when its currency prefix and its thousands separators are
\* taken away
AmountMeant(x) ==
    IF x.t = "float" THEN x.v
    ELSE float_of(SelectSeq(x.s, LAMBDA c : isdigit(c) \/ c = "."))

\* whether the order has a name and an amount in one of the formats: a
\* number, or a string that holds a numeral
InFormat(order) ==
    /\ DOMAIN order = {"name", "amount"}
    /\ \/ order["amount"].t = "float"
       \/ \E i \in 1..Len(order["amount"].s) : isdigit(order["amount"].s[i])

\* the row the statement asks for
RowMeant(order) ==
    <<"keyan haocai", order["name"], order["name"], "pi", 1,
      AmountMeant(order["amount"]), AmountMeant(order["amount"])>>

\* C20: the file generate_procurement_request writes holds one data row for
\* each order, in the order of the input from row 3 on, and the row of an
\* order is 科研耗材, its 商品名称 twice, 批, 1 and twice the amount its 金额
\* stands for, be it a number, a plain numeral, or a numeral with a currency
\* prefix or thousands separators
C20_RowPerOrder ==
    (gen_pc = "done" /\ ~gen_raised) =>
        /\ Len(gen_file) = Len(orders_data) + 2
        /\ \A i \in 1..Len(orders_data) :
               InFormat(orders_data[i]) =>
                   gen_file[i + 2] = RowMeant(orders_data[i])

(***************************************************************************)
(* Properties of the cache across calls (SpecCache).                       *)
(***************************************************************************)
\* C25: a call of extract_all_invoice_numbers without force_refresh on an
\* extractor whose invoice_number_set is not empty leaves the set, the map
\* and the cache file as they were, so every lookup answers as before the
\* call, also for a number carried by a PDF stored in the reimbursed tree
\* after the cache was built.
C25_CacheHitFrame ==
    [][(/\ last_call'.op = "extract_all_invoice_numbers"
        /\ ~last_call'.force_refresh
        /\ invoice_number_set # {}) =>
           /\ invoice_number_set' = invoice_number_set
           /\ invoice_to_files' = invoice_to_files
           /\ cache_file' = cache_file
           /\ last_saved' = last_saved
           /\ fs' = fs
           /\ \A q \in Queries, include_tbd \in BOOLEAN :
                  check_invoice_number(invoice_to_files', q, include_tbd)
                      = check_invoice_number(invoice_to_files, q, include_tbd)]_vars

\* after a call without force_refresh on a cache that is not empty, a PDF
\* of the reimbursed tree carries a number that the lookup does not report
\* as reimbursed
C25_Witness ==
    /\ last_call.op = "extract_all_invoice_numbers"
    /\ ~last_call.force_refresh
    /\ invoice_number_set # {}
    /\ \E p \in BasePaths :
           /\ fs[p] # 0
           /\ \E n \in NumbersFoundIn(p) :
                  ~check_invoice_number(invoice_to_files, n, FALSE).is_reimbursed

\* C26: from an empty cache, after any sequence of calls of
\* extract_all_invoice_numbers, save_cache and load_cache (and of changes
\* of the tree between them), invoice_number_set is the key set of
\* invoice_to_files, no file list is empty, and every number was extracted
\* by a scan from each file its list names; a cache file that save_cache
\* wrote holds a set and a map with the same properties.
C26_CacheConsistent ==
    /\ invoice_number_set = DOMAIN invoice_to_files
    /\ \A n \in DOMAIN invoice_to_files : invoice_to_files[n] # <<>>
    /\ Listed(invoice_to_files) \subseteq extracted_from
    /\ cache_file.state = "pickle" =>
           /\ cache_file.data.invoice_number_set
                  = DOMAIN cache_file.data.invoice_to_files
           /\ \A n \in DOMAIN cache_file.data.invoice_to_files :
                  cache_file.data.invoice_to_files[n] # <<>>
           /\ Listed(cache_file.data.invoice_to_files) \subseteq extracted_from

\* load_cache has read a saved cache that lists a number for a file which
\* has been replaced since and no longer carries it
C26_Witness ==
    /\ last_call.op = "load_cache"
    /\ cache_file.state = "pickle"
    /\ \E n \in invoice_number_set :
           \E p \in FilesListed(n) : fs[p] # 0 /\ n \notin NumbersFoundIn(p)

(***************************************************************************)
(* Properties of two runs on one cache file (SpecRuns).                    *)
(***************************************************************************)
\* C24: nothing guards two runs against each other. A run reads the cache
\* file at its construction only: its set and map change in its own steps
\* alone, whatever the other run writes. A run that has scanned writes the
\* file whatever the other run is doing, and the file then holds the set
\* and the map of that run and nothing else: the last writer wins.
C24_LastWriterWins ==
    /\ [](cache_file.state = "pickle" =>
              /\ last_writer \in Runs
              /\ cache_file.data = cache_data(run_set[last_writer],
                                              run_map[last_writer]))
    /\ [][\A r \in Runs :
              /\ run_pc'[r] = run_pc[r] =>
                     (run_set'[r] = run_set[r] /\ run_map'[r] = run_map[r])
              /\ (run_pc[r] = "scanned" /\ run_pc'[r] = "done"
                      /\ run_saved'[r] = "ok") =>
                     cache_file' = CacheFile("pickle",
                                       cache_data(run_set[r], run_map[r]))]_vars

\* both runs have scanned and written the file without error, and the file
\* lacks an invoice number that one of them found
C24_Witness ==
    /\ \A r \in Runs : run_pc[r] = "done" /\ run_saved[r] = "ok"
    /\ cache_file.state = "pickle"
    /\ \E r \in Runs :
           \E n \in run_set[r] : n \notin cache_file.data.invoice_number_set

(***************************************************************************)
(* Properties of the accounting of move_reimbursed_invoices (SpecMove).    *)
(***************************************************************************)

\* C23: the lookup of the move ignores every cached path under tbd (tbd
\* itself and tbd/done): a number is reported reimbursed only when the
\* cache lists it for a file outside tbd, a file is moved only when one of
\* its numbers is, and a file all of whose numbers are listed for files
\* under tbd only, itself included, is neither counted reimbursed nor moved.
C23_NeverBecauseOfItself ==
    \A i \in 1..Len(handled) :
        LET e == handled[i]
        IN  /\ \A k \in 1..Len(e.status) :
                   e.status[k].is_reimbursed <=>
                       \E f \in FilesListed(e.status[k].num) : f.dir = "base"
            /\ e.moved => \E j \in 1..Len(e.numbers) :
                              \E f \in FilesListed(e.numbers[j]) : f.dir = "base"
            /\ (\A j \in 1..Len(e.numbers) :
                    \A f \in FilesListed(e.numbers[j]) : UnderTbd(f)) =>
                   (e.counted # "reimbursed" /\ ~e.moved /\ fs[e.file] # 0)

\* in a live run a file whose number the cache lists for the file itself
\* and for a path in tbd/done, and for nothing else, was looked up, counted
\* as non-reimbursed and left in tbd
C23_Witness ==
    /\ ~dry_run
    /\ \E i \in 1..Len(handled) :
           LET e == handled[i]
           IN  /\ e.counted = "non_reimbursed"
               /\ fs[e.file] # 0
               /\ \E j \in 1..Len(e.numbers) :
                      /\ e.file \in FilesListed(e.numbers[j])
                      /\ \E f \in FilesListed(e.numbers[j]) : f.dir = "done"
                      /\ \A f \in FilesListed(e.numbers[j]) : UnderTbd(f)

\* the turns that found no number in their file
WithoutNumber ==
    { i \in 1..Len(handled) :
          handled[i].numbers = <<>> /\ handled[i].fault = "none" }

\* the turns that raised before their file was counted
RaisedUnclassified ==
    { i \in 1..Len(handled) : handled[i].fault \in {"extract", "check"} }

\* the turns whose move or whose record write raised
MoveFailed ==
    { i \in 1..Len(handled) : handled[i].fault \in {"move", "record"} }

\* C27: in the dictionary a run returns, the reimbursed files, the
\* non-reimbursed files, the files without a number and the files whose
\* handling raised before they were counted add up to total_files; the
\* moved_files list is no longer than reimbursed_files and exactly as long
\* when no move and no record write failed.
C27_CountersAddUp ==
    mv_pc = "returned" =>
        /\ results.reimbursed_files + results.non_reimbursed_files
               + Cardinality(WithoutNumber) + Cardinality(RaisedUnclassified)
              = results.total_files
        /\ results.reimbursed_files + results.non_reimbursed_files
              <= results.total_files
        /\ Len(results.moved_files) <= results.reimbursed_files
        /\ Len(results.moved_files) = results.reimbursed_files
               <=> MoveFailed = {}

\* a run returned with two reimbursed files, one moved and one whose move
\* or record write failed
C27_Witness ==
    /\ mv_pc = "returned"
    /\ results.reimbursed_files = 2
    /\ Len(results.moved_files) = 1
    /\ MoveFailed # {}

\* C28: after a live call that returned without errors, a second call on
\* the same cache looks at the files left directly in tbd only, counts no
\* file as reimbursed and moves nothing.
C28_SecondCallMovesNothing ==
    (mv_call = 2 /\ ~dry_run /\ first_results.errors = <<>>) =>
        /\ results.reimbursed_files = 0
        /\ results.moved_files = <<>>
        /\ \A i \in 1..Len(tbd_pdfs) : tbd_pdfs[i].dir = "tbd"
        /\ \A i \in 1..Len(handled) :
               ~handled[i].moved /\ handled[i].counted # "reimbursed"

\* the first call moved a file without error, and the second call has
\* looked at the file that was left and returned
C28_Witness ==
    /\ mv_call = 2 /\ ~dry_run /\ mv_pc = "returned"
    /\ first_results.errors = <<>>
    /\ first_results.moved_files # <<>>
    /\ Len(handled) >= 1
    /\ \E p \in Paths : p.dir = "done" /\ fs[p] # 0

(***************************************************************************)
(* Properties of deduplicate_files (SpecDedup).                            *)
(***************************************************************************)
\* the invoice numbers the file f of the folder tbd carries
Carries(tbd, f) ==
    IF tbd[f].doc = 0 THEN {}
    ELSE LET numbers ==
                 TBD_extract_invoice_numbers_from_pdf(DupDocs[tbd[f].doc])
         IN  { numbers[i] : i \in 1..Len(numbers) }

\* the paths of a list
PathsOf(l) == { l[i] : i \in 1..Len(l) }

\* C21: after deduplicate_files(dry_run=False) every invoice number that a
\* PDF of tbd carried before the run is still carried by a PDF of tbd, and
\* no path of kept_files is the original path of an entry of
\* deleted_files, through the phase of the invoice numbers and the phase of
\* the hashes, also when a file's number is matched by more than one
\* pattern.
C21_OneCopyKept ==
    (dd_pc = "returned" /\ ~dd_dry_run) =>
        /\ \A f \in DOMAIN dd_before : \A n \in Carries(dd_before, f) :
               \E g \in DOMAIN dd_tbd : n \in Carries(dd_tbd, g)
        /\ PathsOf(dd_results.kept_files)
               \cap { dd_results.deleted_files[i].original_path :
                          i \in 1..Len(dd_results.deleted_files) } = {}

(***************************************************************************)
(* Properties of the dry runs (SpecTbd).                                   *)
(***************************************************************************)
\* the results of the loop of move_reimbursed_invoices from file i on when
\* it moves the files and no step raises
RECURSIVE LiveMove(_, _, _, _)
LiveMove(tree, res, recs, i) ==
    IF i > Len(tbd_pdfs) THEN res
    ELSE LET t == move_one(tree, invoice_to_files, res, recs, tbd_pdfs[i],
                           FALSE, "none")
         IN  LiveMove(t.fs, t.results, t.records, i + 1)

\* the state the two loops of deduplicate_files leave when they move the
\* files
RECURSIVE LiveGroups(_, _)
LiveGroups(st, k) ==
    IF k > Len(duplicate_results.duplicate_groups) THEN st
    ELSE LiveGroups(
             dedup_group(st, duplicate_results.duplicate_groups[k], FALSE),
             k + 1)

RECURSIVE LiveExact(_, _)
LiveExact(st, k) ==
    IF k > Len(duplicate_results.exact_duplicates) THEN st
    ELSE LiveExact(
             dedup_exact(st, duplicate_results.exact_duplicates[k], FALSE),
             k + 1)

LiveDedup ==
    LiveExact(
        LiveGroups(
            DedupState(dd_before, {},
                DedupResults(0, 0, 0, <<>>, <<>>, <<>>, FALSE), FALSE), 1), 1)

\* what a dry run returns: the statistics of the run that moves the files
DryStatistics ==
    /\ (dry_run /\ mv_pc = "returned" /\ results.errors = <<>>) =>
           /\ results =
                  LiveMove(fs, Results(Len(tbd_pdfs), 0, 0, <<>>, <<>>), {}, 1)
           /\ Len(results.moved_files) = results.reimbursed_files
    /\ (dd_dry_run /\ dd_pc = "returned" /\ ~dd_results.early) =>
           /\ dd_results.files_deleted = Len(dd_results.deleted_files)
           /\ LiveDedup.results.errors = <<>> =>
                  dd_results = LiveDedup.results

\* C22: with dry_run=True, move_reimbursed_invoices and deduplicate_files
\* move no file and write no *_info.txt record: no step changes the files
\* of tbd, tbd/done or tbd/duplicates; the statistics returned
\* (reimbursed_files, moved_files, deleted_files, files_deleted) are those
\* of the run that moves the files.
C22_DryRunFrame ==
    /\ [][/\ dry_run => (fs' = fs /\ records' = records)
          /\ dd_dry_run => (dd_tbd' = dd_tbd /\ dd_duplicates' = dd_duplicates)]_vars
    /\ []DryStatistics

\* a dry run of move_reimbursed_invoices returned a reimbursed file in
\* moved_files, and the file is still in tbd
C22_Witness ==
    /\ dry_run
    /\ mv_pc = "returned"
    /\ results.reimbursed_files >= 1
    /\ \E i \in 1..Len(results.moved_files) :
           /\ fs[results.moved_files[i].original_path] # 0
           /\ fs[results.moved_files[i].target_path] = 0
    /\ records = {}

====
